---------------------------- MODULE Spec2Model ----------------------------
(***************************************************************************)
(* The merge-job engine of marge-bot (marge/job.py) as a state machine.    *)
(*                                                                         *)
(* One behaviour is one call of one engine operation by the outer caller:  *)
(* a Call_* action draws the arguments and the forge/git state the call    *)
(* meets, the operation's own actions follow its code step by step (one    *)
(* action per loop iteration or per collaborator call that may fail), and  *)
(* the behaviour ends in pc = "done" with the operation's outcome: a       *)
(* normal return or the exception that leaves it.                          *)
(*                                                                         *)
(* Collaborators (forge API, git working copy, clock) are the environment: *)
(* every value they return and every failure the code provides for is a    *)
(* nondeterministic choice from a small set.  `calls` records, in order,   *)
(* the collaborator calls the operation has made.                          *)
(***************************************************************************)
EXTENDS Integers, Sequences, FiniteSets, TLC

(***************************************************************************)
(* Bounds of the model.                                                    *)
(***************************************************************************)
NumShas == 2             \* commit hashes are 1..NumShas
NumUsers == 2            \* user ids are 1..NumUsers; the bot is user 1
MaxApprovalsLeft == 1    \* the forge reports approvals_left in 0..MaxApprovalsLeft
MaxCiTimeoutWaits == 3   \* ci_timeout is 0..MaxCiTimeoutWaits polling intervals
ClockStart == 100        \* the clock's reading, in seconds, when the call begins
MaxApprovalTimeout == 8  \* approval_timeout is 0..MaxApprovalTimeout seconds
MaxApprovers == 2        \* approved_by lists of Approvals objects: length
MaxRequired == 2         \* CustomApprovals: approvals_required is 0..MaxRequired

(***************************************************************************)
(* Program constants.                                                      *)
(***************************************************************************)
CiWaitingTimeInSecs == 10     \* wait_for_ci_to_pass: waiting_time_in_secs
MaxConsecutiveErrors == 5     \* wait_for_ci_to_pass: consecutive_errors > 5
MergeStatusAttempts == 3      \* wait_for_merge_status_to_resolve: attempts
MergeStatusWaitingTimeInSecs == 5
ReapproveWaitingTimeInSecs == 5   \* maybe_reapprove: waiting_time_in_secs
NoSha == 0                    \* Python None where a sha is optional

Shas == 1..NumShas
UserIds == 1..NumUsers
BotUserId == 1
NoUser == 0                   \* Python None where a user id is optional
None == "None"                \* Python None where a string is optional

(***************************************************************************)
(* Exceptions and outcomes.  SkipMerge and GitLabRebaseResultMismatch are  *)
(* subclasses of CannotMerge; reason is args[0] of the exception, detail   *)
(* the values formatted into it.                                           *)
(***************************************************************************)
Exc(kind, reason, detail) == [kind |-> kind, reason |-> reason, detail |-> detail]

Pending == Exc("none", "", <<>>)

Return == Exc("return", "", <<>>)

CannotMerge(reason, detail) == Exc("CannotMerge", reason, detail)

SkipMerge(reason, detail) == Exc("SkipMerge", reason, detail)

GitLabRebaseResultMismatch(gitlab_sha, expected_sha) ==
    Exc("GitLabRebaseResultMismatch",
        "GitLab rebase ended up with a different commit",
        <<expected_sha, gitlab_sha>>)

CannotMergeKinds == {"CannotMerge", "SkipMerge", "GitLabRebaseResultMismatch"}

TransientErrorKinds == {"InternalServerError", "Timeout"}

(***************************************************************************)
(* Fusion and MergeJobOptions.                                             *)
(***************************************************************************)
Fusion == {"merge", "rebase", "gitlab_rebase"}

MergeJobOptions ==
    [add_tested |-> FALSE, add_part_of |-> FALSE, add_reviewers |-> FALSE,
     keep_reviewers |-> FALSE, reapprove |-> FALSE, approval_timeout |-> 0,
     ci_timeout |-> 0, fusion |-> "rebase"]

requests_commit_tagging(o) == o.add_tested \/ o.add_part_of \/ o.add_reviewers

(***************************************************************************)
(* The merge request as the engine holds it (`mr`, refreshed in place by   *)
(* refetch_info) and as the forge has it (`forge`).                        *)
(***************************************************************************)
MrStates == {"opened", "reopened", "locked", "merged", "closed", "unknown"}

DefaultMr ==
    [draft |-> FALSE, squash |-> FALSE, state |-> "opened",
     blocking_discussions_resolved |-> TRUE, assignee_ids |-> {BotUserId},
     sha |-> 1, detailed_merge_status |-> "mergeable",
     source_branch |-> "feature", target_branch |-> "main",
     author_id |-> NoUser]

Branches == {"main", "feature"}

DefaultProject ==
    [default_branch |-> "main", only_allow_merge_if_pipeline_succeeds |-> FALSE]

\* Locals of update_from_target_branch_and_push and of the operations it calls.
DefaultLocals ==
    [source_repo_url |-> None, add_trailers |-> TRUE,
     branch_update_done |-> FALSE, commits_rewrite_done |-> FALSE,
     initial_mr_sha |-> NoSha, updated_sha |-> NoSha, target_sha |-> NoSha,
     trailers_sha |-> NoSha, final_sha |-> NoSha,
     branch_was_modified |-> FALSE, expected_sha |-> NoSha, err |-> None]

\* An Approvals object: its class, its info (approvals_left, approved_by as
\* approver_usernames and approver_ids, approvals_required), what its api
\* answers to version(), and for CustomApprovals the allow-list and the
\* number of approvals required.
DefaultApprovals ==
    [class |-> "Approvals",
     approvals_left |-> 0, approver_usernames |-> <<>>, approver_ids |-> <<>>,
     approvals_required |-> 0,
     version |-> [is_ee |-> TRUE, release |-> <<13, 2, 0>>],
     allowed_approvers |-> {}, required |-> 1]

VARIABLES
    pc,                  \* where the running operation stands
    op,                  \* the operation the caller invoked
    opts,                \* self._options
    mr,                  \* merge_request._info as last fetched
    forge,               \* the forge's record of the merge request
    forge_approvals,     \* the approvals the forge reports for it
    embargo_covers_now,  \* self.opts.embargo.covers(now)
    now,                 \* the clock, in seconds
    calls,               \* collaborator calls made so far, in order
    outcome,             \* how the operation ended
    commit_sha,          \* wait_for_ci_to_pass: the sha whose pipeline is polled
    time_0,              \* wait_for_ci_to_pass: loop start
    consecutive_errors,  \* wait_for_ci_to_pass: failed lookups counted
    caught,              \* wait_for_ci_to_pass: the lookup error last caught
    lookups,             \* polling loops: each lookup's status, or "error"
    attempt,             \* wait_for_merge_status_to_resolve: loop index
    project,             \* self._project
    upd,                 \* locals of update_from_target_branch_and_push
    approvals,           \* maybe_reapprove: the Approvals object passed in
    iterations           \* maybe_reapprove: sleeps left

vars == <<pc, op, opts, mr, forge, forge_approvals, embargo_covers_now, now,
          calls, outcome, commit_sha, time_0, consecutive_errors, caught,
          lookups, attempt, project, upd, approvals, iterations>>

ciVars == <<commit_sha, time_0, consecutive_errors, caught>>

updVars == <<project, upd>>

envVars == <<forge, forge_approvals, embargo_covers_now>>

reapproveVars == <<approvals, iterations>>

Init ==
    /\ pc = "idle"
    /\ op = "none"
    /\ opts = MergeJobOptions
    /\ mr = DefaultMr
    /\ forge = DefaultMr
    /\ forge_approvals = DefaultApprovals
    /\ embargo_covers_now = FALSE
    /\ now = ClockStart
    /\ calls = <<>>
    /\ outcome = Pending
    /\ commit_sha = NoSha
    /\ time_0 = 0
    /\ consecutive_errors = 0
    /\ caught = None
    /\ lookups = <<>>
    /\ attempt = 0
    /\ project = DefaultProject
    /\ upd = DefaultLocals
    /\ approvals = DefaultApprovals
    /\ iterations = 0

Count(s, name) == Cardinality({i \in DOMAIN s : s[i][1] = name})

Range(q) == {q[i] : i \in DOMAIN q}

(***************************************************************************)
(* ensure_mergeable_mr (validate_preconditions)                            *)
(***************************************************************************)
Max(a, b) == IF a >= b THEN a ELSE b

\* CustomApprovals.allowed_approvals_usernames
allowed_approvals_usernames(self) ==
    SelectSeq(self.approver_usernames, LAMBDA username : username \in self.allowed_approvers)

\* Approvals.approvals_left and its override in CustomApprovals
approvals_left(self) ==
    IF self.class = "CustomApprovals"
    THEN Max(0, self.required - Len(allowed_approvals_usernames(self)))
    ELSE self.approvals_left

\* Mutant: sufficient goes by the forge's own approvals_left in both classes.
sufficient_OfForge(self) == self.approvals_left = 0

\* Approvals.sufficient and CustomApprovals.sufficient: not self.approvals_left
sufficient(self) == approvals_left(self) = 0

during_merge_embargo == embargo_covers_now

\* Mutant: an unknown state is skipped silently like merged/closed.
MergeRequestStateResult_UnknownSkipped(state) ==
    IF state \notin {"opened", "reopened", "locked"}
    THEN SkipMerge("The merge request is already", <<state>>)
    ELSE Return

\* Mutant: only "merged" counts as already done.
MergeRequestStateResult_ClosedUnknown(state) ==
    IF state \notin {"opened", "reopened", "locked"}
    THEN IF state \in {"merged"}
         THEN SkipMerge("The merge request is already", <<state>>)
         ELSE CannotMerge("The merge request is in an unknown state", <<state>>)
    ELSE Return

\* The test of merge_request.state.
MergeRequestStateResult(state) ==
    IF state \notin {"opened", "reopened", "locked"}
    THEN IF state \in {"merged", "closed"}
         THEN SkipMerge("The merge request is already", <<state>>)
         ELSE CannotMerge("The merge request is in an unknown state", <<state>>)
    ELSE Return

\* Mutant: the assignee is not tested.
EnsureMergeableResult_AssigneeUnchecked(m, o, fetched, embargoed, user_id) ==
    IF m.draft
    THEN CannotMerge("Sorry, I can't merge requests marked as Draft!", <<>>)
    ELSE IF m.squash /\ requests_commit_tagging(o)
    THEN CannotMerge("Sorry, merging requests marked as auto-squash would ruin my commit tagging!", <<>>)
    ELSE IF ~sufficient(fetched)
    THEN CannotMerge("Insufficient approvals",
                     <<fetched.approver_usernames, fetched.approvals_left>>)
    ELSE IF ~m.blocking_discussions_resolved
    THEN CannotMerge("Sorry, I can't merge requests which have unresolved discussions!", <<>>)
    ELSE IF MergeRequestStateResult(m.state) # Return
    THEN MergeRequestStateResult(m.state)
    ELSE IF embargoed
    THEN SkipMerge("Merge embargo!", <<>>)
    ELSE Return

\* The gates in the order the code tests them; m is the refetched MR.
EnsureMergeableResult(m, o, fetched, embargoed, user_id) ==
    IF m.draft
    THEN CannotMerge("Sorry, I can't merge requests marked as Draft!", <<>>)
    ELSE IF m.squash /\ requests_commit_tagging(o)
    THEN CannotMerge("Sorry, merging requests marked as auto-squash would ruin my commit tagging!", <<>>)
    ELSE IF ~sufficient(fetched)
    THEN CannotMerge("Insufficient approvals",
                     <<fetched.approver_usernames, fetched.approvals_left>>)
    ELSE IF ~m.blocking_discussions_resolved
    THEN CannotMerge("Sorry, I can't merge requests which have unresolved discussions!", <<>>)
    ELSE IF MergeRequestStateResult(m.state) # Return
    THEN MergeRequestStateResult(m.state)
    ELSE IF embargoed
    THEN SkipMerge("Merge embargo!", <<>>)
    ELSE IF user_id \notin m.assignee_ids
    THEN SkipMerge("It is not assigned to me anymore!", <<>>)
    ELSE Return

\* fetch_approvals is reached only past the draft and squash gates.
EnsureMergeableCalls(m, o) ==
    IF m.draft \/ (m.squash /\ requests_commit_tagging(o))
    THEN <<<<"refetch_info">>>>
    ELSE <<<<"refetch_info">>, <<"fetch_approvals">>>>

Call_ensure_mergeable_mr ==
    /\ pc = "idle"
    /\ pc' = "ensure_mergeable_mr"
    /\ op' = "ensure_mergeable_mr"
    /\ \E tested \in BOOLEAN, part_of \in BOOLEAN, reviewers \in BOOLEAN :
         opts' = [opts EXCEPT !.add_tested = tested, !.add_part_of = part_of,
                              !.add_reviewers = reviewers]
    /\ \E d \in BOOLEAN, q \in BOOLEAN, st \in MrStates, b \in BOOLEAN,
          a \in SUBSET UserIds :
         forge' = [forge EXCEPT !.draft = d, !.squash = q, !.state = st,
                                !.blocking_discussions_resolved = b,
                                !.assignee_ids = a]
    /\ \E n \in 0..MaxApprovalsLeft :
         forge_approvals' = [forge_approvals EXCEPT !.approvals_left = n]
    /\ embargo_covers_now' \in BOOLEAN
    /\ UNCHANGED <<mr, now, calls, outcome, ciVars, lookups, attempt, updVars, reapproveVars>>

ensure_mergeable_mr ==
    /\ pc = "ensure_mergeable_mr"
    /\ mr' = forge
    /\ calls' = calls \o EnsureMergeableCalls(mr', opts)
    /\ outcome' = EnsureMergeableResult(mr', opts, forge_approvals,
                                        during_merge_embargo, BotUserId)
    /\ pc' = "done"
    /\ UNCHANGED <<op, opts, envVars, now, ciVars, lookups, attempt, updVars, reapproveVars>>

(***************************************************************************)
(* get_mr_ci_status and wait_for_ci_to_pass (await_ci_success)             *)
(***************************************************************************)
CiStatuses == {"created", "pending", "running", "success", "failed",
               "canceling", "canceled", "skipped", "manual"}

OtherSha(sha) == (sha % NumShas) + 1

\* What Pipeline.pipelines_by_merge_request may return when polling for sha:
\* no pipeline, one pipeline, or two, at sha or at another commit.
PipelineLists(sha) ==
    LET first == [sha : {sha, OtherSha(sha)}, status : CiStatuses]
        second == [sha : {sha, OtherSha(sha)}, status : {"success", "failed"}]
    IN  {<<>>} \cup {<<p>> : p \in first}
               \cup {<<p, q>> : p \in first, q \in second}

\* The first pipeline whose sha is the polled one decides; none gives None.
get_mr_ci_status(pipelines, sha) ==
    LET matching == {i \in DOMAIN pipelines : pipelines[i].sha = sha}
    IN  IF matching # {}
        THEN LET i == CHOOSE j \in matching : \A k \in matching : j <= k
             IN  [ci_status |-> pipelines[i].status, pipeline_msg |-> "See pipeline"]
        ELSE [ci_status |-> None, pipeline_msg |-> "No pipeline associated."]

\* Mutant: the fifth failed lookup is re-raised already.
TooManyErrors_OffByOne(n) == n >= MaxConsecutiveErrors

\* consecutive_errors > 5, tested after the increment
TooManyErrors(n) == n > MaxConsecutiveErrors

\* Mutant: only "canceled" counts as canceled, "canceling" keeps waiting.
CiStatusResult_CancelingWaits(ci_status, pipeline_msg) ==
    IF ci_status = "success" THEN Return
    ELSE IF ci_status = "skipped" THEN Return
    ELSE IF ci_status = "failed"
    THEN CannotMerge("CI failed!", <<pipeline_msg>>)
    ELSE IF ci_status \in {"canceled"}
    THEN CannotMerge("Someone canceled the CI.", <<pipeline_msg>>)
    ELSE Pending

\* Mutant: a status that is merely logged as suspicious aborts the wait.
CiStatusResult_SuspiciousFails(ci_status, pipeline_msg) ==
    IF ci_status = "success" THEN Return
    ELSE IF ci_status = "skipped" THEN Return
    ELSE IF ci_status = "failed"
    THEN CannotMerge("CI failed!", <<pipeline_msg>>)
    ELSE IF ci_status \in {"canceling", "canceled"}
    THEN CannotMerge("Someone canceled the CI.", <<pipeline_msg>>)
    ELSE IF ci_status \notin {"created", "pending", "running"}
    THEN CannotMerge("Suspicious CI status", <<pipeline_msg>>)
    ELSE Pending

\* The verdict on one status: a return, a CannotMerge, or keep waiting.
CiStatusResult(ci_status, pipeline_msg) ==
    IF ci_status = "success" THEN Return
    ELSE IF ci_status = "skipped" THEN Return
    ELSE IF ci_status = "failed"
    THEN CannotMerge("CI failed!", <<pipeline_msg>>)
    ELSE IF ci_status \in {"canceling", "canceled"}
    THEN CannotMerge("Someone canceled the CI.", <<pipeline_msg>>)
    ELSE Pending

\* Mutant: the time after the wait is not measured from the loop's start.
EnoughTimeLeft_FromEpoch(t_now, t_0, ci_timeout) ==
    (t_now + CiWaitingTimeInSecs) < ci_timeout

\* Mutant: a wait that ends exactly at the timeout is still started.
EnoughTimeLeft_NotStrict(t_now, t_0, ci_timeout) ==
    (t_now + CiWaitingTimeInSecs) - t_0 <= ci_timeout

\* "Do we have enough time left to wait for another loop?"
EnoughTimeLeft(t_now, t_0, ci_timeout) ==
    (t_now + CiWaitingTimeInSecs) - t_0 < ci_timeout

Call_wait_for_ci_to_pass ==
    /\ pc = "idle"
    /\ pc' = "wait_for_ci_to_pass"
    /\ op' = "wait_for_ci_to_pass"
    /\ \E t \in 0..MaxCiTimeoutWaits :
         opts' = [opts EXCEPT !.ci_timeout = t * CiWaitingTimeInSecs]
    /\ time_0' = now
    /\ \E arg \in {NoSha, OtherSha(mr.sha)} :
         commit_sha' = IF arg = NoSha THEN mr.sha ELSE arg
    /\ consecutive_errors' = 0
    /\ caught' = None
    /\ lookups' = <<>>
    /\ UNCHANGED <<mr, envVars, now, calls, outcome, attempt, updVars, reapproveVars>>

\* One iteration whose lookup raises InternalServerError or Timeout.
wait_for_ci_to_pass_lookup_error ==
    /\ pc = "wait_for_ci_to_pass"
    /\ \E err \in TransientErrorKinds :
         /\ lookups' = Append(lookups, "error")
         /\ caught' = err
         /\ consecutive_errors' = consecutive_errors + 1
         /\ IF TooManyErrors(consecutive_errors')
            THEN /\ pc' = "done"
                 /\ outcome' = Exc(caught', "", <<>>)
                 /\ calls' = Append(calls, <<"get_mr_ci_status">>)
                 /\ now' = now
            ELSE /\ pc' = pc
                 /\ outcome' = outcome
                 /\ calls' = calls \o <<<<"get_mr_ci_status">>, <<"sleep">>>>
                 /\ now' = now + CiWaitingTimeInSecs
    /\ UNCHANGED <<op, opts, mr, envVars, commit_sha, time_0, attempt, updVars, reapproveVars>>

\* One iteration whose lookup answers.
wait_for_ci_to_pass_lookup ==
    /\ pc = "wait_for_ci_to_pass"
    /\ \E pipelines \in PipelineLists(commit_sha) :
         LET res == get_mr_ci_status(pipelines, commit_sha)
             verdict == CiStatusResult(res.ci_status, res.pipeline_msg)
         IN  /\ lookups' = Append(lookups, res.ci_status)
             /\ IF verdict # Pending
                THEN /\ pc' = "done"
                     /\ outcome' = verdict
                     /\ calls' = Append(calls, <<"get_mr_ci_status">>)
                     /\ now' = now
                ELSE IF EnoughTimeLeft(now, time_0, opts.ci_timeout)
                THEN /\ pc' = pc
                     /\ outcome' = outcome
                     /\ calls' = calls \o <<<<"get_mr_ci_status">>, <<"sleep">>>>
                     /\ now' = now + CiWaitingTimeInSecs
                ELSE /\ pc' = "done"
                     /\ outcome' = CannotMerge("CI is taking too long.",
                                               <<res.pipeline_msg>>)
                     /\ calls' = Append(calls, <<"get_mr_ci_status">>)
                     /\ now' = now
    /\ UNCHANGED <<op, opts, mr, envVars, ciVars, attempt, updVars, reapproveVars>>

(***************************************************************************)
(* Errors of the collaborators.  reason names the call that raised.        *)
(***************************************************************************)
GitError(call) == Exc("GitError", call, <<>>)

ApiError(call) == Exc("ApiError", call, <<>>)

\* What a called operation leaves behind: its exception (or Return), the
\* sha it returns or sets, and the collaborator calls it made.
Step(exc, sha, made) == [exc |-> exc, sha |-> sha, calls |-> made]

(***************************************************************************)
(* add_trailers (inject_trailers) and _get_reviewer_names_and_emails       *)
(***************************************************************************)
Trailers == {"Reviewed-by", "Tested-by", "Part-of"}

should_add_reviewers(o) == o.add_reviewers /\ o.fusion # "gitlab_rebase"

\* Mutant: Tested-by is added under every fusion mode.
should_add_tested_AnyFusion(o, proj) ==
    o.add_tested /\ proj.only_allow_merge_if_pipeline_succeeds

should_add_tested(o, proj) ==
    /\ o.add_tested
    /\ proj.only_allow_merge_if_pipeline_succeeds
    /\ o.fusion = "rebase"

should_add_parts_of(o) == o.add_part_of /\ o.fusion # "gitlab_rebase"

\* Mutant: any approver among the commit authors is refused.
NoIndependentReviewer_AnySelfReview(author_emails, approver_ids) ==
    author_emails \cap approver_ids # {}

\* Users are identified with their email; approver_ids are the approvers,
\* author_emails the authors of the MR's commits.  TRUE when the code raises
\* "Commits require at least one independent reviewer."
NoIndependentReviewer(author_emails, approver_ids) ==
    LET self_reviewed == author_emails \cap approver_ids
    IN  self_reviewed # {} /\ Cardinality(approver_ids) <= 1

\* One repo.tag_with_trailer call after the step s; tagged[name] is the sha
\* the call returns, NoSha when it raises GitError.
TagWithTrailer(s, name, tagged) ==
    IF s.exc # Return THEN s
    ELSE IF tagged[name] = NoSha
    THEN Step(GitError("repo.tag_with_trailer"), s.sha,
              Append(s.calls, <<"repo.tag_with_trailer", name, NoSha>>))
    ELSE Step(Return, tagged[name],
              Append(s.calls, <<"repo.tag_with_trailer", name, tagged[name]>>))

AddTrailers(o, proj, author_emails, approver_ids, tagged) ==
    LET start == Step(Return, NoSha, <<>>)
        fetched == Step(Return, NoSha, <<<<"fetch_commits", author_emails>>,
                                         <<"fetch_approvals", approver_ids>>>>)
        reviewed ==
            IF ~should_add_reviewers(o) THEN start
            ELSE IF NoIndependentReviewer(author_emails, approver_ids)
            THEN Step(CannotMerge("Commits require at least one independent reviewer.", <<>>),
                      NoSha, fetched.calls)
            ELSE TagWithTrailer(fetched, "Reviewed-by", tagged)
        tested ==
            IF should_add_tested(o, proj)
            THEN TagWithTrailer(reviewed, "Tested-by", tagged)
            ELSE reviewed
        part_of ==
            IF should_add_parts_of(o)
            THEN TagWithTrailer(tested, "Part-of", tagged)
            ELSE tested
    IN  part_of

(***************************************************************************)
(* push_force_to_mr (push_with_force)                                      *)
(***************************************************************************)
BranchLookups == {"protected", "unprotected", "ApiError"}

\* Mutant: the protection flag is looked up and obeyed whether or not the
\* branch was modified.
PushForceToMr_AlwaysLooksUp(o, branch_was_modified, pushed, branch) ==
    LET failed == <<<<"repo.push", "GitError">>>>
        looked_up == Append(failed, <<"Branch.fetch_by_name", branch>>)
    IN  IF pushed THEN Step(Return, NoSha, <<<<"repo.push", "ok">>>>)
        ELSE IF branch = "ApiError"
        THEN Step(ApiError("Branch.fetch_by_name"), NoSha, looked_up)
        ELSE IF branch = "protected"
        THEN Step(CannotMerge("Sorry, I can't modify protected branches!", <<>>),
                  NoSha, looked_up)
        ELSE Step(CannotMerge("Failed to push changes, check my logs!",
                              <<IF o.fusion = "merge" THEN "merged" ELSE "rebased">>),
                  NoSha, looked_up)

\* pushed: repo.push returned; branch: what Branch.fetch_by_name gives when
\* it is called.
PushForceToMr(o, branch_was_modified, pushed, branch) ==
    LET failed == <<<<"repo.push", "GitError">>>>
        looked_up == Append(failed, <<"Branch.fetch_by_name", branch>>)
    IN  IF pushed THEN Step(Return, NoSha, <<<<"repo.push", "ok">>>>)
        ELSE IF branch_was_modified /\ branch = "ApiError"
        THEN Step(ApiError("Branch.fetch_by_name"), NoSha, looked_up)
        ELSE IF branch_was_modified /\ branch = "protected"
        THEN Step(CannotMerge("Sorry, I can't modify protected branches!", <<>>),
                  NoSha, looked_up)
        ELSE Step(CannotMerge("Failed to push changes, check my logs!",
                              <<IF o.fusion = "merge" THEN "merged" ELSE "rebased">>),
                  NoSha,
                  IF branch_was_modified THEN looked_up ELSE failed)

(***************************************************************************)
(* synchronize_using_gitlab_rebase (synchronize_via_forge_rebase)          *)
(***************************************************************************)
RebaseResults == {"ok", "MergeRequestRebaseFailed", "TimeoutError", "ApiError"}

\* expected_arg: the argument (NoSha for None); head: what
\* repo.get_commit_hash() returns (NoSha when it raises GitError); rebased:
\* how merge_request.rebase() ends; gitlab_sha: merge_request.sha after it;
\* branch: what Branch.fetch_by_name gives when it is called.
\* Mutant: the given expected_sha is ignored in favour of the local HEAD.
ExpectedSha_ArgumentIgnored(expected_arg, head) == head

\* expected_sha = expected_sha or self._repo.get_commit_hash()
ExpectedSha(expected_arg, head) ==
    IF expected_arg # NoSha THEN expected_arg ELSE head

\* Mutant: the API error is re-raised whatever the branch lookup gives.
SynchronizeUsingGitlabRebase_ProtectionUnchecked(expected_arg, head, rebased, gitlab_sha, branch) ==
    LET expected_sha == ExpectedSha(expected_arg, head)
        read == IF expected_arg # NoSha THEN <<>>
                ELSE <<<<"repo.get_commit_hash", "HEAD", head>>>>
        called == Append(read, <<"merge_request.rebase", rebased>>)
        looked_up == Append(called, <<"Branch.fetch_by_name", branch>>)
    IN  IF expected_sha = NoSha
        THEN Step(GitError("repo.get_commit_hash"), NoSha, read)
        ELSE IF rebased = "MergeRequestRebaseFailed"
        THEN Step(CannotMerge("GitLab failed to rebase the branch saying", <<>>),
                  expected_sha, called)
        ELSE IF rebased = "TimeoutError"
        THEN Step(CannotMerge("GitLab was taking too long to rebase the branch...", <<>>),
                  expected_sha, called)
        ELSE IF rebased = "ApiError"
        THEN IF branch = "ApiError"
             THEN Step(ApiError("Branch.fetch_by_name"), expected_sha, looked_up)
             ELSE Step(ApiError("merge_request.rebase"), expected_sha, looked_up)
        ELSE IF gitlab_sha # expected_sha
        THEN Step(GitLabRebaseResultMismatch(gitlab_sha, expected_sha),
                  expected_sha, called)
        ELSE Step(Return, expected_sha, called)

SynchronizeUsingGitlabRebase(expected_arg, head, rebased, gitlab_sha, branch) ==
    LET expected_sha == ExpectedSha(expected_arg, head)
        read == IF expected_arg # NoSha THEN <<>>
                ELSE <<<<"repo.get_commit_hash", "HEAD", head>>>>
        called == Append(read, <<"merge_request.rebase", rebased>>)
        looked_up == Append(called, <<"Branch.fetch_by_name", branch>>)
    IN  IF expected_sha = NoSha
        THEN Step(GitError("repo.get_commit_hash"), NoSha, read)
        ELSE IF rebased = "MergeRequestRebaseFailed"
        THEN Step(CannotMerge("GitLab failed to rebase the branch saying", <<>>),
                  expected_sha, called)
        ELSE IF rebased = "TimeoutError"
        THEN Step(CannotMerge("GitLab was taking too long to rebase the branch...", <<>>),
                  expected_sha, called)
        ELSE IF rebased = "ApiError"
        THEN IF branch = "ApiError"
             THEN Step(ApiError("Branch.fetch_by_name"), expected_sha, looked_up)
             ELSE IF branch = "protected"
             THEN Step(CannotMerge("Sorry, I can't modify protected branches!", <<>>),
                       expected_sha, looked_up)
             ELSE Step(ApiError("merge_request.rebase"), expected_sha, looked_up)
        ELSE IF gitlab_sha # expected_sha
        THEN Step(GitLabRebaseResultMismatch(gitlab_sha, expected_sha),
                  expected_sha, called)
        ELSE Step(Return, expected_sha, called)

(***************************************************************************)
(* wait_for_merge_status_to_resolve (await_merge_status_resolution)        *)
(***************************************************************************)
MergeStatuses == {"mergeable", "unchecked", "checking", "approvals_syncing",
                  "cannot_be_merged", "not_approved"}

\* Mutant: "not_approved" is taken for one more transitional status.
MergeStatusResult_NotApprovedWaits(detailed_merge_status) ==
    IF detailed_merge_status = "mergeable" THEN Return
    ELSE IF detailed_merge_status \in {"unchecked", "checking", "approvals_syncing",
                                       "not_approved"}
    THEN Pending
    ELSE CannotMerge("MR has status and cannot be merged.",
                     <<detailed_merge_status>>)

\* Mutant: running out of attempts is reported as a failure.
MergeStatusExhausted_Raises(detailed_merge_status) ==
    CannotMerge("MR has status and cannot be merged.", <<detailed_merge_status>>)

\* The for loop ends after its last attempt and the function falls off its
\* end: it returns None whatever the last status was.
MergeStatusExhausted(detailed_merge_status) == Return

\* The verdict on one detailed_merge_status: return, raise, or go on.
MergeStatusResult(detailed_merge_status) ==
    IF detailed_merge_status = "mergeable" THEN Return
    ELSE IF detailed_merge_status \in {"unchecked", "checking", "approvals_syncing"}
    THEN Pending
    ELSE CannotMerge("MR has status and cannot be merged.",
                     <<detailed_merge_status>>)

Call_wait_for_merge_status_to_resolve ==
    /\ pc = "idle"
    /\ pc' = "wait_for_merge_status_to_resolve"
    /\ op' = "wait_for_merge_status_to_resolve"
    /\ attempt' = 0
    /\ lookups' = <<>>
    /\ UNCHANGED <<opts, mr, envVars, now, calls, outcome, ciVars, updVars, reapproveVars>>

\* One iteration of `for attempt in range(attempts)`; the forge settles the
\* status on its own between refetches.  When the last iteration ends
\* without a verdict the function falls off its end and returns None.
wait_for_merge_status_to_resolve ==
    /\ pc = "wait_for_merge_status_to_resolve"
    /\ attempt < MergeStatusAttempts
    /\ \E status \in MergeStatuses :
         forge' = [forge EXCEPT !.detailed_merge_status = status]
    /\ mr' = forge'
    /\ lookups' = Append(lookups, mr'.detailed_merge_status)
    /\ LET verdict == MergeStatusResult(mr'.detailed_merge_status)
       IN  IF verdict # Pending
           THEN /\ pc' = "done"
                /\ outcome' = verdict
                /\ calls' = Append(calls, <<"refetch_info">>)
                /\ UNCHANGED <<now, attempt>>
           ELSE /\ calls' = calls \o <<<<"refetch_info">>, <<"sleep">>>>
                /\ now' = now + MergeStatusWaitingTimeInSecs
                /\ attempt' = attempt + 1
                /\ IF attempt' < MergeStatusAttempts
                   THEN pc' = pc /\ outcome' = outcome
                   ELSE /\ pc' = "done"
                        /\ outcome' = MergeStatusExhausted(mr'.detailed_merge_status)
    /\ UNCHANGED <<op, opts, forge_approvals, embargo_covers_now, ciVars, updVars,
                   reapproveVars>>

(***************************************************************************)
(* update_from_target_branch_and_push (synchronize_and_push), fuse,        *)
(* synchronize_mr_with_local_changes, and the operations they call, which  *)
(* the caller may also invoke on their own.                                *)
(***************************************************************************)
InTry == op = "update_from_target_branch_and_push"

\* fuse: Fusion.merge merges, Fusion.rebase and Fusion.gitlab_rebase rebase.
strategy(fusion) == IF fusion = "merge" THEN "repo.merge" ELSE "repo.rebase"

\* Mutant: the fused commit is never compared with the target's tip.
AlreadyInTarget_Unchecked(updated_sha, target_sha) == FALSE

\* `if updated_sha == target_sha`: nothing to merge.
AlreadyInTarget(updated_sha, target_sha) == updated_sha = target_sha

\* Mutant: the branch is pushed whatever the fusion mode.
synchronize_mr_with_local_changes_AlwaysPush(o) == "push_force_to_mr"

\* synchronize_mr_with_local_changes: the operation the fusion mode selects.
synchronize_mr_with_local_changes(o) ==
    IF o.fusion = "gitlab_rebase"
    THEN "synchronize_using_gitlab_rebase"
    ELSE "push_force_to_mr"

\* Mutant: after the cleanup the git error is re-raised as it is, whatever
\* the completion flags say.
ExceptGitError_NotReclassified(source_branch, default_branch, l, checked_out, removed) ==
    LET cleanup == IF source_branch = default_branch THEN <<>>
                   ELSE IF ~checked_out THEN <<<<"repo.checkout_branch">>>>
                   ELSE <<<<"repo.checkout_branch">>, <<"repo.remove_branch">>>>
    IN  IF source_branch # default_branch /\ ~checked_out
        THEN Step(GitError("repo.checkout_branch"), NoSha, cleanup)
        ELSE IF source_branch # default_branch /\ ~removed
        THEN Step(GitError("repo.remove_branch"), NoSha, cleanup)
        ELSE Step(GitError(l.err), NoSha, cleanup)

\* Mutant: the cleanup is made on the default branch as well.
Cleanup_DefaultBranchToo(source_branch, default_branch, checked_out) ==
    IF ~checked_out THEN <<<<"repo.checkout_branch">>>>
    ELSE <<<<"repo.checkout_branch">>, <<"repo.remove_branch">>>>

\* The cleanup calls of the handler; checked_out: repo.checkout_branch
\* returned.
Cleanup(source_branch, default_branch, checked_out) ==
    IF source_branch = default_branch THEN <<>>
    ELSE IF ~checked_out THEN <<<<"repo.checkout_branch">>>>
    ELSE <<<<"repo.checkout_branch">>, <<"repo.remove_branch">>>>

\* Mutant: the rewrite flag is tested first.
Reclassified_RewriteFlagFirst(l) ==
    IF ~l.commits_rewrite_done
    THEN CannotMerge("failed on filter-branch; check my logs!", <<>>)
    ELSE IF ~l.branch_update_done
    THEN CannotMerge("got conflicts while rebasing, your problem now...", <<>>)
    ELSE GitError(l.err)

\* What the handler raises once the cleanup is through.
Reclassified(l) ==
    IF ~l.branch_update_done
    THEN CannotMerge("got conflicts while rebasing, your problem now...", <<>>)
    ELSE IF ~l.commits_rewrite_done
    THEN CannotMerge("failed on filter-branch; check my logs!", <<>>)
    ELSE GitError(l.err)

\* The calls made, the last of them raising a git error.
LastRaised(made) == [made EXCEPT ![Len(made)] = Append(@, "GitError")]

\* Mutant: a failure of the cleanup is swallowed and the original error
\* reclassified all the same.
ExceptGitError_CleanupFailureSwallowed(source_branch, default_branch, l, checked_out, removed) ==
    LET cleanup == Cleanup(source_branch, default_branch, checked_out)
    IN  IF source_branch # default_branch /\ ~checked_out
        THEN Step(Reclassified(l), NoSha, LastRaised(cleanup))
        ELSE IF source_branch # default_branch /\ ~removed
        THEN Step(Reclassified(l), NoSha, LastRaised(cleanup))
        ELSE Step(Reclassified(l), NoSha, cleanup)

\* `except git.GitError as err` of update_from_target_branch_and_push:
\* cleanup first, then the reclassification by the two completion flags.
ExceptGitError(source_branch, default_branch, l, checked_out, removed) ==
    LET cleanup == Cleanup(source_branch, default_branch, checked_out)
    IN  IF source_branch # default_branch /\ ~checked_out
        THEN Step(GitError("repo.checkout_branch"), NoSha, LastRaised(cleanup))
        ELSE IF source_branch # default_branch /\ ~removed
        THEN Step(GitError("repo.remove_branch"), NoSha, LastRaised(cleanup))
        ELSE Step(Reclassified(l), NoSha, cleanup)

Call_update_from_target_branch_and_push ==
    /\ pc = "idle"
    /\ pc' = "update_from_target_branch_and_push"
    /\ op' = "update_from_target_branch_and_push"
    /\ \E f \in Fusion, tested \in BOOLEAN, part_of \in BOOLEAN, reviewers \in BOOLEAN :
         opts' = [opts EXCEPT !.fusion = f, !.add_tested = tested,
                              !.add_part_of = part_of, !.add_reviewers = reviewers]
    /\ \E source \in Branches :
         mr' = [mr EXCEPT !.source_branch = source]
    /\ \E def \in Branches, pipeline \in BOOLEAN :
         project' = [default_branch |-> def,
                     only_allow_merge_if_pipeline_succeeds |-> pipeline]
    /\ \E url \in {None, "fork"}, add \in BOOLEAN :
         upd' = [DefaultLocals EXCEPT !.source_repo_url = url, !.add_trailers = add]
    /\ UNCHANGED <<envVars, now, calls, outcome, ciVars, lookups, attempt, reapproveVars>>

\* Lines up to `initial_mr_sha = merge_request.sha`.
update_from_target_branch_and_push ==
    /\ pc = "update_from_target_branch_and_push"
    /\ IF upd.source_repo_url = None /\ mr.source_branch = mr.target_branch
       THEN /\ pc' = "done"
            /\ outcome' = CannotMerge("source and target branch seem to coincide!", <<>>)
            /\ upd' = upd
       ELSE /\ pc' = "fuse"
            /\ outcome' = outcome
            /\ upd' = [upd EXCEPT !.initial_mr_sha = mr.sha]
    /\ UNCHANGED <<op, opts, mr, envVars, now, calls, ciVars, lookups, attempt,
                   project, reapproveVars>>

\* updated_sha = self.fuse(...); branch_update_done = True
fuse ==
    /\ pc = "fuse"
    /\ \E sha \in Shas \cup {NoSha} :
         /\ calls' = Append(calls, <<strategy(opts.fusion), sha>>)
         /\ IF sha = NoSha
            THEN /\ pc' = "except_git_error"
                 /\ upd' = [upd EXCEPT !.err = strategy(opts.fusion)]
            ELSE /\ pc' = "get_commit_hash"
                 /\ upd' = [upd EXCEPT !.updated_sha = sha,
                                       !.branch_update_done = TRUE]
    /\ UNCHANGED <<op, opts, mr, envVars, now, outcome, ciVars, lookups, attempt,
                   project, reapproveVars>>

\* target_sha = repo.get_commit_hash("origin/" + target_branch) and the test
\* that the fused commit is not the target's tip already.
get_commit_hash ==
    /\ pc = "get_commit_hash"
    /\ \E sha \in Shas \cup {NoSha} :
         /\ calls' = Append(calls, <<"repo.get_commit_hash", "origin/target", sha>>)
         /\ IF sha = NoSha
            THEN /\ pc' = "except_git_error"
                 /\ upd' = [upd EXCEPT !.err = "repo.get_commit_hash"]
                 /\ outcome' = outcome
            ELSE /\ upd' = [upd EXCEPT !.target_sha = sha]
                 /\ IF AlreadyInTarget(upd.updated_sha, sha)
                    THEN /\ pc' = "done"
                         /\ outcome' = CannotMerge("these changes already exist in branch",
                                                   <<mr.target_branch>>)
                    ELSE /\ pc' = "add_trailers"
                         /\ outcome' = outcome
    /\ UNCHANGED <<op, opts, mr, envVars, now, ciVars, lookups, attempt, project, reapproveVars>>

\* What the forge and the repository are asked for: the commits and the
\* approvals only when Reviewed-by is to be added, a tag per trailer to add.
CommitAuthors(skipped, o) ==
    IF ~skipped /\ should_add_reviewers(o) THEN (SUBSET UserIds) \ {{}} ELSE {{}}

Approvers(skipped, o) ==
    IF ~skipped /\ should_add_reviewers(o) THEN SUBSET UserIds ELSE {{}}

TrailersToAdd(skipped, o, proj) ==
    IF skipped THEN {}
    ELSE {t \in Trailers : \/ t = "Reviewed-by" /\ should_add_reviewers(o)
                           \/ t = "Tested-by" /\ should_add_tested(o, proj)
                           \/ t = "Part-of" /\ should_add_parts_of(o)}

\* The calls made, the two fetches without what they returned: as a step of
\* update_from_target_branch_and_push add_trailers is logged by its calls.
FetchesMade(made) ==
    [i \in DOMAIN made |->
        IF made[i][1] \in {"fetch_commits", "fetch_approvals"}
        THEN <<made[i][1]>> ELSE made[i]]

Call_add_trailers ==
    /\ pc = "idle"
    /\ pc' = "add_trailers"
    /\ op' = "add_trailers"
    /\ \E f \in Fusion, tested \in BOOLEAN, part_of \in BOOLEAN, reviewers \in BOOLEAN :
         opts' = [opts EXCEPT !.fusion = f, !.add_tested = tested,
                              !.add_part_of = part_of, !.add_reviewers = reviewers]
    /\ \E pipeline \in BOOLEAN :
         project' = [project EXCEPT !.only_allow_merge_if_pipeline_succeeds = pipeline]
    /\ UNCHANGED <<mr, envVars, now, calls, outcome, ciVars, lookups, attempt, upd,
                   reapproveVars>>

\* add_trailers, and in update_from_target_branch_and_push the lines
\*   final_sha = self.add_trailers(merge_request) if add_trailers else None
\*   final_sha = final_sha or updated_sha
\*   commits_rewrite_done = True
\*   branch_was_modified = final_sha != initial_mr_sha
add_trailers ==
    /\ pc = "add_trailers"
    /\ \E author_emails \in CommitAuthors(InTry /\ ~upd.add_trailers, opts),
          approver_ids \in Approvers(InTry /\ ~upd.add_trailers, opts),
          tagged \in [TrailersToAdd(InTry /\ ~upd.add_trailers, opts, project)
                        -> Shas \cup {NoSha}] :
         LET s == IF InTry /\ ~upd.add_trailers
                  THEN Step(Return, NoSha, <<>>)
                  ELSE AddTrailers(opts, project, author_emails, approver_ids, tagged)
             final_sha == IF s.sha # NoSha THEN s.sha ELSE upd.updated_sha
         IN  /\ calls' = calls \o (IF InTry THEN FetchesMade(s.calls) ELSE s.calls)
             /\ IF s.exc # Return
                THEN IF InTry /\ s.exc.kind = "GitError"
                     THEN /\ pc' = "except_git_error"
                          /\ upd' = [upd EXCEPT !.err = s.exc.reason]
                          /\ outcome' = outcome
                     ELSE /\ pc' = "done"
                          /\ upd' = upd
                          /\ outcome' = s.exc
                ELSE IF InTry
                THEN /\ upd' = [upd EXCEPT !.trailers_sha = s.sha,
                                           !.final_sha = final_sha,
                                           !.commits_rewrite_done = TRUE,
                                           !.branch_was_modified =
                                               (final_sha # upd.initial_mr_sha)]
                     /\ pc' = synchronize_mr_with_local_changes(opts)
                     /\ outcome' = outcome
                ELSE /\ upd' = [upd EXCEPT !.trailers_sha = s.sha]
                     /\ pc' = "done"
                     /\ outcome' = Return
    /\ UNCHANGED <<op, opts, mr, envVars, now, ciVars, lookups, attempt, project, reapproveVars>>

Call_push_force_to_mr ==
    /\ pc = "idle"
    /\ pc' = "push_force_to_mr"
    /\ op' = "push_force_to_mr"
    /\ \E f \in Fusion : opts' = [opts EXCEPT !.fusion = f]
    /\ \E modified \in BOOLEAN :
         upd' = [upd EXCEPT !.branch_was_modified = modified]
    /\ UNCHANGED <<mr, envVars, now, calls, outcome, ciVars, lookups, attempt,
                   project, reapproveVars>>

push_force_to_mr ==
    /\ pc = "push_force_to_mr"
    /\ \E pushed \in BOOLEAN, branch \in BranchLookups :
         LET s == PushForceToMr(opts, upd.branch_was_modified, pushed, branch)
         IN  /\ calls' = calls \o s.calls
             /\ outcome' = s.exc
    /\ pc' = "done"
    /\ UNCHANGED <<op, opts, mr, envVars, now, ciVars, lookups, attempt, updVars, reapproveVars>>

Call_synchronize_using_gitlab_rebase ==
    /\ pc = "idle"
    /\ pc' = "synchronize_using_gitlab_rebase"
    /\ op' = "synchronize_using_gitlab_rebase"
    /\ opts' = [opts EXCEPT !.fusion = "gitlab_rebase"]
    /\ \E expected \in Shas \cup {NoSha} :
         upd' = [upd EXCEPT !.expected_sha = expected]
    /\ UNCHANGED <<mr, envVars, now, calls, outcome, ciVars, lookups, attempt,
                   project, reapproveVars>>

\* Called by update_from_target_branch_and_push without expected_sha
\* (upd.expected_sha stays NoSha there), by the outer caller with or without.
synchronize_using_gitlab_rebase ==
    /\ pc = "synchronize_using_gitlab_rebase"
    /\ \E head \in Shas \cup {NoSha}, rebased \in RebaseResults, gitlab_sha \in Shas,
          branch \in BranchLookups :
         LET s == SynchronizeUsingGitlabRebase(upd.expected_sha, head, rebased,
                                               gitlab_sha, branch)
             rebase_done == s.exc.kind \in {"return", "GitLabRebaseResultMismatch"}
         IN  /\ calls' = calls \o s.calls
             /\ forge' = IF rebase_done THEN [forge EXCEPT !.sha = gitlab_sha] ELSE forge
             /\ mr' = IF rebase_done THEN [mr EXCEPT !.sha = gitlab_sha] ELSE mr
             /\ IF InTry /\ s.exc.kind = "GitError"
                THEN /\ pc' = "except_git_error"
                     /\ upd' = [upd EXCEPT !.err = s.exc.reason]
                     /\ outcome' = outcome
                ELSE /\ pc' = "done"
                     /\ upd' = upd
                     /\ outcome' = s.exc
    /\ UNCHANGED <<op, opts, forge_approvals, embargo_covers_now, now, ciVars,
                   lookups, attempt, project, reapproveVars>>

except_git_error ==
    /\ pc = "except_git_error"
    /\ \E checked_out \in BOOLEAN, removed \in BOOLEAN :
         LET s == ExceptGitError(mr.source_branch, project.default_branch, upd,
                                 checked_out, removed)
         IN  /\ calls' = calls \o s.calls
             /\ outcome' = s.exc
    /\ pc' = "done"
    /\ UNCHANGED <<op, opts, mr, envVars, now, ciVars, lookups, attempt, updVars, reapproveVars>>

(***************************************************************************)
(* maybe_reapprove, with Approvals.reapprove and Approvals.approve.         *)
(* `approvals` is the object the caller fetched before the push; the forge *)
(* had those approvals then and they were sufficient.  Since then the      *)
(* forge may have dropped any of them, and may drop more at any time.      *)
(***************************************************************************)
\* gitlab_version.release values, compared as Python compares tuples.
Releases == {<<8, 17, 3>>, <<9, 2, 1>>, <<9, 2, 2>>, <<9, 10, 0>>,
             <<13, 1, 5>>, <<13, 2, 0>>}

ReleaseGE(a, b) ==
    \/ a[1] > b[1]
    \/ a[1] = b[1] /\ a[2] > b[2]
    \/ a[1] = b[1] /\ a[2] = b[2] /\ a[3] >= b[3]

\* Approvals.id: `raise NotImplementedError()`
id(self) == Exc("NotImplementedError", "id", <<>>)

\* Approvals.approve up to its loop: the version request and the URL, keyed
\* by obj.iid from 9.2.2 on and by obj.id before; obj is the Approvals object.
ApproveUrl(obj) ==
    IF ReleaseGE(obj.version.release, <<9, 2, 2>>) THEN Return ELSE id(obj)

\* Python's round(n / d) for n >= 0, d > 0: to the nearest integer, a tie to
\* the even one.
Round(n, d) ==
    LET q == n \div d
        r == n % d
    IN  IF 2 * r < d THEN q
        ELSE IF 2 * r > d THEN q + 1
        ELSE IF q % 2 = 0 THEN q ELSE q + 1

\* approved_by lists, in the forge's order (here: ascending user id).
ApproverLists ==
    {q \in UNION {[1..n -> UserIds] : n \in 0..NumUsers} :
        \A i, j \in DOMAIN q : i < j => q[i] < q[j]}

ApproverList(ids) == CHOOSE q \in ApproverLists : Range(q) = ids

\* What the forge reports for a set of approvers still recorded.
ForgeApprovals(current, ids) ==
    [current EXCEPT !.approver_ids = ApproverList(ids),
                    !.approvals_left =
                        Max(0, current.approvals_required - Cardinality(ids))]

\* merge_request.fetch_approvals(): the forge may have reset some approvals.
FetchApprovals(current) ==
    {ForgeApprovals(current, ids) : ids \in SUBSET Range(current.approver_ids)}

\* Mutant: the replay is made whatever the last fetch reported.
ShouldReapprove_Always(fetched) == TRUE

\* `if not sufficient_approvals()`
ShouldReapprove(fetched) == ~sufficient(fetched)

Call_maybe_reapprove ==
    /\ pc = "idle"
    /\ pc' = "maybe_reapprove"
    /\ op' = "maybe_reapprove"
    /\ \E r \in BOOLEAN, t \in 0..MaxApprovalTimeout :
         opts' = [opts EXCEPT !.reapprove = r, !.approval_timeout = t]
    /\ \E ids \in ApproverLists, release \in {<<9, 2, 1>>, <<9, 2, 2>>} :
         \E required \in 0..Len(ids) :
            /\ approvals' = [DefaultApprovals EXCEPT !.approver_ids = ids,
                                                     !.approvals_required = required,
                                                     !.version.release = release]
            /\ forge_approvals' = approvals'
    /\ lookups' = <<>>
    /\ UNCHANGED <<mr, forge, embargo_covers_now, now, calls, outcome, ciVars,
                   attempt, updVars, iterations>>

\* `if self.opts.reapprove:` and the lines up to the while loop.
maybe_reapprove ==
    /\ pc = "maybe_reapprove"
    /\ IF opts.reapprove
       THEN /\ pc' = "sufficient_approvals"
            /\ iterations' = Round(opts.approval_timeout, ReapproveWaitingTimeInSecs)
            /\ outcome' = outcome
       ELSE /\ pc' = "done"
            /\ iterations' = iterations
            /\ outcome' = Return
    /\ UNCHANGED <<op, opts, mr, envVars, now, calls, ciVars, lookups, attempt,
                   updVars, approvals>>

\* `while sufficient_approvals() and iterations:` and its body.
sufficient_approvals ==
    /\ pc = "sufficient_approvals"
    /\ \E fetched \in FetchApprovals(forge_approvals) :
         /\ forge_approvals' = fetched
         /\ lookups' = Append(lookups, IF sufficient(fetched)
                                       THEN "sufficient" ELSE "insufficient")
         /\ IF sufficient(fetched) /\ iterations # 0
            THEN /\ calls' = calls \o <<<<"fetch_approvals">>, <<"sleep">>>>
                 /\ now' = now + ReapproveWaitingTimeInSecs
                 /\ iterations' = iterations - 1
                 /\ pc' = pc
            ELSE /\ calls' = Append(calls, <<"fetch_approvals">>)
                 /\ now' = now
                 /\ iterations' = iterations
                 /\ pc' = "reapprove"
    /\ UNCHANGED <<op, opts, mr, forge, embargo_covers_now, outcome, ciVars,
                   attempt, updVars, approvals>>

\* `if not sufficient_approvals(): approvals.reapprove()`, and
\* Approvals.approve up to its loop.
reapprove ==
    /\ pc = "reapprove"
    /\ \E fetched \in FetchApprovals(forge_approvals) :
         /\ forge_approvals' = fetched
         /\ lookups' = Append(lookups, IF sufficient(fetched)
                                       THEN "sufficient" ELSE "insufficient")
         /\ IF ShouldReapprove(fetched)
            THEN /\ calls' = calls \o <<<<"fetch_approvals">>, <<"reapprove">>,
                                         <<"version">>>>
                 /\ IF ApproveUrl(approvals) # Return
                    THEN pc' = "done" /\ outcome' = ApproveUrl(approvals)
                    ELSE IF approvals.approver_ids = <<>>
                    THEN pc' = "done" /\ outcome' = Return
                    ELSE pc' = "approve" /\ outcome' = outcome
            ELSE /\ calls' = Append(calls, <<"fetch_approvals">>)
                 /\ pc' = "done"
                 /\ outcome' = Return
    /\ UNCHANGED <<op, opts, mr, forge, embargo_covers_now, now, ciVars, attempt,
                   updVars, reapproveVars>>

\* One pass of `for uid in self.approver_ids:` in Approvals.approve: a POST
\* with sudo=uid.  The forge refuses or swallows an approval it still has.
approve ==
    /\ pc = "approve"
    /\ LET k == Count(calls, "POST approve") + 1
           uid == approvals.approver_ids[k]
           recorded == Range(forge_approvals.approver_ids)
       IN  \E accepted \in IF uid \in recorded THEN BOOLEAN ELSE {TRUE} :
             /\ calls' = Append(calls, <<"POST approve", uid,
                                         IF uid \in recorded THEN "duplicate" ELSE "new">>)
             /\ IF ~accepted
                THEN /\ pc' = "done"
                     /\ outcome' = ApiError("POST approve")
                     /\ forge_approvals' = forge_approvals
                ELSE /\ forge_approvals' =
                            ForgeApprovals(forge_approvals, recorded \cup {uid})
                     /\ IF k = Len(approvals.approver_ids)
                        THEN pc' = "done" /\ outcome' = Return
                        ELSE pc' = pc /\ outcome' = outcome
    /\ UNCHANGED <<op, opts, mr, forge, embargo_covers_now, now, ciVars, lookups,
                   attempt, updVars, reapproveVars>>

(***************************************************************************)
(* Approvals and CustomApprovals (marge/approvals.py): the properties      *)
(* approvals_left and sufficient, and refetch_info.                        *)
(***************************************************************************)
Usernames == {"a", "b", "c"}

UsernameLists == UNION {[1..n -> Usernames] : n \in 0..MaxApprovers}

\* The caller holds an Approvals object of either class and reads its
\* approvals_left and its sufficient.
Call_sufficient ==
    /\ pc = "idle"
    /\ pc' = "sufficient"
    /\ op' = "sufficient"
    /\ \E class \in {"Approvals", "CustomApprovals"}, left \in 0..MaxApprovalsLeft,
          usernames \in UsernameLists :
         \E allowed \in IF class = "Approvals" THEN {{}} ELSE SUBSET Usernames,
            required \in IF class = "Approvals" THEN {1} ELSE 0..MaxRequired :
            approvals' = [DefaultApprovals EXCEPT !.class = class,
                                                  !.approvals_left = left,
                                                  !.approver_usernames = usernames,
                                                  !.allowed_approvers = allowed,
                                                  !.required = required]
    /\ UNCHANGED <<opts, mr, envVars, now, calls, outcome, ciVars, lookups,
                   attempt, updVars, iterations>>

Approvals_sufficient ==
    /\ pc = "sufficient"
    /\ pc' = "done"
    /\ outcome' = [Return EXCEPT !.detail = <<approvals_left(approvals),
                                              sufficient(approvals)>>]
    /\ UNCHANGED <<op, opts, mr, envVars, now, calls, ciVars, lookups, attempt,
                   updVars, reapproveVars>>

\* Approvals.refetch_info; answer is the info the approvals endpoint returns.
\* The result: the exception or Return, the object afterwards, the calls.
RefetchInfo(self, answer) ==
    LET gitlab_version == self.version
        asked == <<<<"version">>>>
    IN  IF ~ReleaseGE(gitlab_version.release, <<9, 2, 2>>)
        THEN [exc |-> id(self), self |-> self, calls |-> asked]
        ELSE IF gitlab_version.is_ee \/ ReleaseGE(gitlab_version.release, <<13, 2, 0>>)
        THEN [exc |-> Return,
              self |-> [self EXCEPT !.approvals_left = answer.approvals_left,
                                    !.approver_ids = answer.approver_ids,
                                    !.approver_usernames = answer.approver_usernames],
              calls |-> Append(asked, <<"GET approvals", "iid">>)]
        ELSE [exc |-> Return,
              self |-> [self EXCEPT !.approvals_left = 0,
                                    !.approver_ids = <<>>,
                                    !.approver_usernames = <<>>],
              calls |-> asked]

Call_refetch_info ==
    /\ pc = "idle"
    /\ pc' = "refetch_info"
    /\ op' = "refetch_info"
    /\ \E ee \in BOOLEAN, release \in Releases, left \in 0..MaxApprovalsLeft,
          ids \in {<<>>, <<BotUserId>>} :
         approvals' = [DefaultApprovals EXCEPT
                          !.version = [is_ee |-> ee, release |-> release],
                          !.approvals_left = left, !.approver_ids = ids]
    /\ \E left \in 0..MaxApprovalsLeft, ids \in ApproverLists :
         forge_approvals' = [DefaultApprovals EXCEPT !.approvals_left = left,
                                                     !.approver_ids = ids]
    /\ UNCHANGED <<opts, mr, forge, embargo_covers_now, now, calls, outcome,
                   ciVars, lookups, attempt, updVars, iterations>>

refetch_info ==
    /\ pc = "refetch_info"
    /\ LET s == RefetchInfo(approvals, forge_approvals)
       IN  /\ approvals' = s.self
           /\ calls' = calls \o s.calls
           /\ outcome' = s.exc
    /\ pc' = "done"
    /\ UNCHANGED <<op, opts, mr, envVars, now, ciVars, lookups, attempt, updVars,
                   iterations>>

(***************************************************************************)
(* unassign_from_mr (release_assignment)                                   *)
(***************************************************************************)
\* Mutant: the merge request goes back to its author, the bot included.
UnassignFromMr_AuthorAlways(author_id, user_id) ==
    IF author_id # NoUser
    THEN <<"assign_to", author_id>>
    ELSE <<"unassign">>

\* The assignment call unassign_from_mr makes.
UnassignFromMr(author_id, user_id) ==
    IF author_id # NoUser /\ author_id # user_id
    THEN <<"assign_to", author_id>>
    ELSE <<"unassign">>

Call_unassign_from_mr ==
    /\ pc = "idle"
    /\ pc' = "unassign_from_mr"
    /\ op' = "unassign_from_mr"
    /\ \E author_id \in UserIds \cup {NoUser}, a \in SUBSET UserIds :
         /\ mr' = [mr EXCEPT !.author_id = author_id, !.assignee_ids = a]
         /\ forge' = mr'
    /\ UNCHANGED <<opts, forge_approvals, embargo_covers_now, now, calls, outcome,
                   ciVars, lookups, attempt, updVars, reapproveVars>>

\* The forge takes the change or the call raises.
unassign_from_mr ==
    /\ pc = "unassign_from_mr"
    /\ LET call == UnassignFromMr(mr.author_id, BotUserId)
       IN  /\ calls' = Append(calls, call)
           /\ \E accepted \in BOOLEAN :
                IF accepted
                THEN /\ forge' = [forge EXCEPT !.assignee_ids =
                                     IF call[1] = "assign_to" THEN {call[2]} ELSE {}]
                     /\ outcome' = Return
                ELSE /\ forge' = forge
                     /\ outcome' = ApiError(call[1])
    /\ pc' = "done"
    /\ UNCHANGED <<op, opts, mr, forge_approvals, embargo_covers_now, now, ciVars,
                   lookups, attempt, updVars, reapproveVars>>

Next ==
    \/ Call_ensure_mergeable_mr
    \/ ensure_mergeable_mr
    \/ Call_wait_for_ci_to_pass
    \/ wait_for_ci_to_pass_lookup_error
    \/ wait_for_ci_to_pass_lookup
    \/ Call_wait_for_merge_status_to_resolve
    \/ wait_for_merge_status_to_resolve
    \/ Call_update_from_target_branch_and_push
    \/ update_from_target_branch_and_push
    \/ fuse
    \/ get_commit_hash
    \/ Call_add_trailers
    \/ add_trailers
    \/ Call_push_force_to_mr
    \/ push_force_to_mr
    \/ Call_synchronize_using_gitlab_rebase
    \/ synchronize_using_gitlab_rebase
    \/ except_git_error
    \/ Call_maybe_reapprove
    \/ maybe_reapprove
    \/ sufficient_approvals
    \/ reapprove
    \/ approve
    \/ Call_sufficient
    \/ Approvals_sufficient
    \/ Call_refetch_info
    \/ refetch_info
    \/ Call_unassign_from_mr
    \/ unassign_from_mr

Spec == Init /\ [][Next]_vars

\* The engine is one sequential thread: the running operation takes its next
\* step as long as it has one, every collaborator call returning or raising.
LiveSpec == Spec /\ WF_vars(Next)

(***************************************************************************)
(* Properties.                                                             *)
(***************************************************************************)
Last(s) == s[Len(s)]

Done(operation) == op = operation /\ pc = "done"

ErrorCount == Cardinality({i \in DOMAIN lookups : lookups[i] = "error"})

IsPrefix(s, t) == Len(s) <= Len(t) /\ \A i \in DOMAIN s : s[i] = t[i]

\* The seven gates of ensure_mergeable_mr, read off the forge's record.
AllGatesHold ==
    /\ ~forge.draft
    /\ ~(forge.squash /\ (opts.add_tested \/ opts.add_part_of \/ opts.add_reviewers))
    /\ forge_approvals.approvals_left = 0
    /\ forge.blocking_discussions_resolved
    /\ forge.state \in {"opened", "reopened", "locked"}
    /\ ~embargo_covers_now
    /\ BotUserId \in forge.assignee_ids

\* C1: ensure_mergeable_mr returns normally exactly when the refetched MR is
\* no draft, not squash-marked with commit tagging requested, sufficiently
\* approved, free of unresolved blocking discussions, opened/reopened/locked,
\* outside the embargo and assigned to the bot; otherwise it raises
\* CannotMerge or SkipMerge.
C1_ReturnsIffAllGatesHold ==
    Done("ensure_mergeable_mr") =>
        /\ outcome.kind \in {"return", "CannotMerge", "SkipMerge"}
        /\ outcome.kind = "return" <=> AllGatesHold

C1_Witness ==
    /\ Done("ensure_mergeable_mr")
    /\ outcome.kind = "return"
    /\ forge.squash
    /\ forge.state = "locked"
    /\ forge.assignee_ids = UserIds

\* The gates tested before the state.
EarlierGatesHold ==
    /\ ~forge.draft
    /\ ~(forge.squash /\ (opts.add_tested \/ opts.add_part_of \/ opts.add_reviewers))
    /\ forge_approvals.approvals_left = 0
    /\ forge.blocking_discussions_resolved

\* C2 as claimed: a merged or closed MR is skipped whatever the other gates.
C2_MergedOrClosedAlwaysSkipped ==
    (Done("ensure_mergeable_mr") /\ forge.state \in {"merged", "closed"}) =>
        outcome.kind = "SkipMerge"

\* C2, amended: a merged or closed MR raises SkipMerge "already <state>" when
\* it passes the gates tested before the state (draft, squash with tagging,
\* approvals, discussions), whatever the embargo and the assignees; when one
\* of those fails it raises a plain CannotMerge instead.
C2_MergedOrClosedSkippedPastEarlierGates ==
    (Done("ensure_mergeable_mr") /\ forge.state \in {"merged", "closed"}) =>
        IF EarlierGatesHold
        THEN /\ outcome.kind = "SkipMerge"
             /\ outcome.reason = "The merge request is already"
             /\ outcome.detail = <<forge.state>>
        ELSE outcome.kind = "CannotMerge"

C2_Witness ==
    /\ Done("ensure_mergeable_mr")
    /\ forge.state = "closed"
    /\ embargo_covers_now
    /\ BotUserId \notin forge.assignee_ids
    /\ outcome.kind = "SkipMerge"

\* The operations C3 names.
AbortingOperations ==
    {"ensure_mergeable_mr", "update_from_target_branch_and_push",
     "wait_for_ci_to_pass", "wait_for_merge_status_to_resolve",
     "synchronize_using_gitlab_rebase"}

BranchFoundUnprotected ==
    \E i \in DOMAIN calls :
        calls[i][1] = "Branch.fetch_by_name" /\ calls[i][2] = "unprotected"

C4_SkipMergeOnlyFromValidation ==
    outcome.kind = "SkipMerge" =>
        /\ Done("ensure_mergeable_mr")
        /\ \/ /\ outcome.reason = "The merge request is already"
              /\ forge.state \in {"merged", "closed"}
           \/ /\ outcome.reason = "Merge embargo!"
              /\ embargo_covers_now
           \/ /\ outcome.reason = "It is not assigned to me anymore!"
              /\ BotUserId \notin forge.assignee_ids

C4_Witness ==
    /\ Done("ensure_mergeable_mr")
    /\ outcome.kind = "SkipMerge"
    /\ outcome.reason = "Merge embargo!"
    /\ forge.state = "opened"

\* Calls that rewrite trailers, synchronize the branch or clean up.
AfterFuseCalls ==
    {"repo.tag_with_trailer", "fetch_commits", "fetch_approvals", "repo.push",
     "merge_request.rebase", "Branch.fetch_by_name", "repo.checkout_branch",
     "repo.remove_branch"}

\* C5: in update_from_target_branch_and_push, once the target's tip is read
\* and equals the fused sha the operation has raised CannotMerge ("these
\* changes already exist") with no trailer rewrite, push, forge rebase or
\* branch cleanup made.
C5_NothingToMergeRaisesAndTouchesNothing ==
    (/\ op = "update_from_target_branch_and_push"
     /\ upd.target_sha # NoSha
     /\ upd.updated_sha = upd.target_sha) =>
        /\ pc = "done"
        /\ outcome.kind = "CannotMerge"
        /\ outcome.reason = "these changes already exist in branch"
        /\ \A i \in DOMAIN calls : calls[i][1] \notin AfterFuseCalls

C5_Witness ==
    /\ Done("update_from_target_branch_and_push")
    /\ upd.target_sha # NoSha
    /\ upd.updated_sha = upd.target_sha
    /\ outcome.kind = "CannotMerge"
    /\ mr.source_branch # project.default_branch

RebaseCompleted ==
    \E i \in DOMAIN calls : calls[i][1] = "merge_request.rebase" /\ calls[i][2] = "ok"

\* The local HEAD read before the rebase call.
HeadRead ==
    LET i == CHOOSE j \in DOMAIN calls :
                 calls[j][1] = "repo.get_commit_hash" /\ calls[j][2] = "HEAD"
    IN  calls[i][3]

\* C6: once the forge rebase call has completed without error,
\* synchronize_using_gitlab_rebase returns normally exactly when the MR's
\* head sha equals expected_sha (the argument, or else the HEAD read before
\* the call) and otherwise raises GitLabRebaseResultMismatch carrying the
\* expected sha and the forge's.
C6_RebaseResultCompared ==
    RebaseCompleted =>
        LET expected == IF upd.expected_sha # NoSha THEN upd.expected_sha ELSE HeadRead
        IN  /\ pc = "done"
            /\ outcome.kind = "return" <=> mr.sha = expected
            /\ mr.sha # expected =>
                   /\ outcome.kind = "GitLabRebaseResultMismatch"
                   /\ outcome.detail = <<expected, mr.sha>>

C6_Witness ==
    /\ Done("synchronize_using_gitlab_rebase")
    /\ RebaseCompleted
    /\ upd.expected_sha = NoSha
    /\ outcome.kind = "GitLabRebaseResultMismatch"
    /\ outcome.detail = <<HeadRead, mr.sha>>
    /\ HeadRead # mr.sha

CiFailureStatuses == {"failed", "canceling", "canceled"}

CiSuccessStatuses == {"success", "skipped"}

\* C7: in wait_for_ci_to_pass a poll that sees failed, canceling or canceled
\* ends the operation with CannotMerge, one that sees success or skipped
\* with a normal return, and that poll is the last call made: no sleep and
\* no further lookup follows it.
C7_TerminalStatusEndsAtOnce ==
    op = "wait_for_ci_to_pass" =>
        \A i \in DOMAIN lookups :
            lookups[i] \in CiFailureStatuses \cup CiSuccessStatuses =>
                /\ i = Len(lookups)
                /\ pc = "done"
                /\ outcome.kind = IF lookups[i] \in CiSuccessStatuses
                                  THEN "return" ELSE "CannotMerge"
                /\ Last(calls)[1] = "get_mr_ci_status"
                /\ Count(calls, "get_mr_ci_status") = i
                /\ Count(calls, "sleep") = i - 1

C7_Witness ==
    /\ Done("wait_for_ci_to_pass")
    /\ lookups = <<"running", "error", "canceling">>
    /\ outcome.kind = "CannotMerge"
    /\ Count(calls, "sleep") = 2

PendingPendingSuccess == <<"pending", "pending", "success">>

\* A timeout that lets the loop wait twice.
TimeoutLongEnough == opts.ci_timeout > 2 * CiWaitingTimeInSecs

\* C8 as claimed: [pending, pending, success] returns after exactly 2 lookups.
C8_ReturnsAfterTwoPolls ==
    (/\ op = "wait_for_ci_to_pass"
     /\ TimeoutLongEnough
     /\ lookups = PendingPendingSuccess) =>
        /\ pc = "done"
        /\ outcome.kind = "return"
        /\ Count(calls, "get_mr_ci_status") = 2

\* C8, amended: with a timeout long enough, [pending, pending, success]
\* returns without raising after exactly 3 lookups and 2 sleeps: the loop
\* sleeps once after each pending and is still polling until the success.
C8_ReturnsAfterThreePolls ==
    (/\ op = "wait_for_ci_to_pass"
     /\ TimeoutLongEnough
     /\ lookups # <<>>
     /\ IsPrefix(lookups, PendingPendingSuccess)) =>
        /\ Count(calls, "get_mr_ci_status") = Len(lookups)
        /\ IF lookups = PendingPendingSuccess
           THEN /\ pc = "done"
                /\ outcome.kind = "return"
                /\ Count(calls, "get_mr_ci_status") = 3
                /\ Count(calls, "sleep") = 2
           ELSE /\ pc = "wait_for_ci_to_pass"
                /\ outcome = Pending
                /\ Count(calls, "sleep") = Len(lookups)

C8_Witness ==
    /\ Done("wait_for_ci_to_pass")
    /\ TimeoutLongEnough
    /\ lookups = PendingPendingSuccess
    /\ outcome.kind = "return"

\* C9 as claimed: a lookup error is re-raised only as the 6th of an unbroken
\* run of failed lookups; failures separated by a lookup that answered do not
\* add up.
C9_ReraisedOnlyAfterSixInARow ==
    (op = "wait_for_ci_to_pass" /\ outcome.kind \in TransientErrorKinds) =>
        /\ Len(lookups) > MaxConsecutiveErrors
        /\ \A i \in (Len(lookups) - MaxConsecutiveErrors)..Len(lookups) :
               lookups[i] = "error"

AllFailed == lookups # <<>> /\ \A i \in DOMAIN lookups : lookups[i] = "error"

\* C10: when the first 6 lookups all fail, wait_for_ci_to_pass sleeps after
\* each of the first 5 and at the 6th re-raises the error it has just caught,
\* as that error and not as CannotMerge; when at most 5 lookups have failed
\* and the next one answers success it returns normally.
C10_SixthFailureReraised ==
    op = "wait_for_ci_to_pass" =>
        /\ AllFailed =>
               /\ Len(lookups) <= MaxConsecutiveErrors + 1
               /\ Count(calls, "get_mr_ci_status") = Len(lookups)
               /\ IF Len(lookups) <= MaxConsecutiveErrors
                  THEN /\ pc = "wait_for_ci_to_pass"
                       /\ outcome = Pending
                       /\ Count(calls, "sleep") = Len(lookups)
                  ELSE /\ pc = "done"
                       /\ caught \in TransientErrorKinds
                       /\ outcome = Exc(caught, "", <<>>)
                       /\ Count(calls, "sleep") = MaxConsecutiveErrors
        /\ (lookups # <<>> /\ Last(lookups) = "success"
                /\ ErrorCount <= MaxConsecutiveErrors) =>
               pc = "done" /\ outcome.kind = "return"

C10_Witness ==
    /\ Done("wait_for_ci_to_pass")
    /\ AllFailed
    /\ Len(lookups) = MaxConsecutiveErrors + 1
    /\ outcome.kind = "Timeout"

C10_WitnessSuccessAfterFive ==
    /\ Done("wait_for_ci_to_pass")
    /\ ErrorCount = MaxConsecutiveErrors
    /\ Len(lookups) = MaxConsecutiveErrors + 1
    /\ Last(lookups) = "success"
    /\ outcome.kind = "return"

\* A lookup that answered with a status that ends nothing.
NonTerminal(status) ==
    status \notin CiFailureStatuses \cup CiSuccessStatuses \cup {"error"}

\* C11 as claimed: every wait wait_for_ci_to_pass starts, whatever made it
\* wait, ends strictly before ci_timeout has elapsed since the loop's start.
C11_EveryWaitEndsBeforeTimeout ==
    [][(op = "wait_for_ci_to_pass" /\ now' # now) =>
           now' - time_0 < opts.ci_timeout]_vars

\* C11, amended: every wait started after a lookup that answered ends
\* strictly before ci_timeout has elapsed since the loop's start, and the
\* loop gives up exactly when such a wait would not; the waits after a failed
\* lookup are started without looking at the timeout.
C11_WaitAfterStatusEndsBeforeTimeout ==
    [][(op = "wait_for_ci_to_pass" /\ lookups' # lookups
            /\ NonTerminal(Last(lookups'))) =>
           IF now + CiWaitingTimeInSecs - time_0 < opts.ci_timeout
           THEN /\ pc' = "wait_for_ci_to_pass"
                /\ now' = now + CiWaitingTimeInSecs
                /\ now' - time_0 < opts.ci_timeout
           ELSE /\ pc' = "done"
                /\ now' = now
                /\ outcome'.reason = "CI is taking too long."]_vars

C11_Witness ==
    /\ op = "wait_for_ci_to_pass"
    /\ pc = "wait_for_ci_to_pass"
    /\ opts.ci_timeout = 3 * CiWaitingTimeInSecs
    /\ lookups = <<"pending", "running">>
    /\ now - time_0 = 2 * CiWaitingTimeInSecs
    /\ Count(calls, "sleep") = 2

\* C12: wait_for_ci_to_pass always terminates, the clock advancing by the
\* waiting time at every sleep: it ends by returning, by CannotMerge or by
\* re-raising the lookup error it caught; when every lookup answers with a
\* non-terminal status (created, pending, running, a suspicious one, or no
\* pipeline found) it ends with CannotMerge "CI is taking too long." after at
\* least one lookup, exactly one when ci_timeout is zero.
C12_AlwaysTerminates ==
    /\ (op = "wait_for_ci_to_pass") ~> Done("wait_for_ci_to_pass")
    /\ [](Done("wait_for_ci_to_pass") =>
            /\ outcome.kind \in {"return", "CannotMerge"} \cup TransientErrorKinds
            /\ (\A i \in DOMAIN lookups : NonTerminal(lookups[i])) =>
                   /\ Len(lookups) >= 1
                   /\ outcome.kind = "CannotMerge"
                   /\ outcome.reason = "CI is taking too long."
                   /\ opts.ci_timeout = 0 =>
                          Len(lookups) = 1 /\ Count(calls, "sleep") = 0)

C12_Witness ==
    /\ Done("wait_for_ci_to_pass")
    /\ opts.ci_timeout = 0
    /\ lookups = <<None>>
    /\ outcome.reason = "CI is taking too long."

TransitionalStatuses == {"unchecked", "checking", "approvals_syncing"}

AllTransitional == \A i \in DOMAIN lookups : lookups[i] \in TransitionalStatuses

\* C13: wait_for_merge_status_to_resolve refetches the MR at most 3 times;
\* the first attempt that sees mergeable returns, the first that sees a
\* status neither mergeable nor transitional raises CannotMerge carrying
\* that status, and in both cases that refetch is the last call made; while
\* it has seen transitional statuses only and attempts are left it sleeps
\* and goes on.
C13_FirstSettledStatusDecides ==
    op = "wait_for_merge_status_to_resolve" =>
        /\ Len(lookups) <= MergeStatusAttempts
        /\ Count(calls, "refetch_info") = Len(lookups)
        /\ \A i \in DOMAIN lookups :
               lookups[i] \notin TransitionalStatuses =>
                   /\ i = Len(lookups)
                   /\ pc = "done"
                   /\ outcome = IF lookups[i] = "mergeable"
                                THEN Return
                                ELSE CannotMerge("MR has status and cannot be merged.",
                                                 <<lookups[i]>>)
                   /\ Last(calls)[1] = "refetch_info"
                   /\ Count(calls, "sleep") = i - 1
        /\ (AllTransitional /\ Len(lookups) < MergeStatusAttempts) =>
               /\ pc = "wait_for_merge_status_to_resolve"
               /\ outcome = Pending
               /\ Count(calls, "sleep") = Len(lookups)

C13_Witness ==
    /\ Done("wait_for_merge_status_to_resolve")
    /\ lookups = <<"checking", "checking", "mergeable">>
    /\ outcome = Return
    /\ Count(calls, "refetch_info") = 3

C13_WitnessRaisesAtOnce ==
    /\ Done("wait_for_merge_status_to_resolve")
    /\ lookups = <<"cannot_be_merged">>
    /\ outcome.kind = "CannotMerge"
    /\ calls = <<<<"refetch_info">>>>

\* C14: when all 3 attempts of wait_for_merge_status_to_resolve see a
\* transitional status the operation ends by returning normally, with the
\* very outcome of the mergeable case, after a sleep that follows the last
\* attempt too; a normal return does not tell that mergeable was ever seen.
C14_ExhaustedAttemptsReturn ==
    (/\ op = "wait_for_merge_status_to_resolve"
     /\ Len(lookups) = MergeStatusAttempts
     /\ AllTransitional) =>
        /\ pc = "done"
        /\ outcome = Return
        /\ mr.detailed_merge_status \in TransitionalStatuses
        /\ Count(calls, "refetch_info") = MergeStatusAttempts
        /\ Count(calls, "sleep") = MergeStatusAttempts

C14_Witness ==
    /\ Done("wait_for_merge_status_to_resolve")
    /\ outcome = Return
    /\ lookups = <<"unchecked", "checking", "approvals_syncing">>
    /\ \A i \in DOMAIN lookups : lookups[i] # "mergeable"

\* C15 as claimed: maybe_reapprove makes no impersonated approve call for an
\* approver whose approval the forge still records at the moment of the
\* call, whether the forge has reset none, all or only some of the approvals.
C15_NoDuplicateApproval ==
    \A i \in DOMAIN calls :
        calls[i][1] = "POST approve" => calls[i][3] # "duplicate"

\* The except handler of update_from_target_branch_and_push has run.
Handled == upd.err # None

CleanupFailed ==
    /\ outcome.kind = "GitError"
    /\ outcome.reason \in {"repo.checkout_branch", "repo.remove_branch"}

Failed(name) ==
    \E i \in DOMAIN calls : calls[i][1] = name /\ calls[i][Len(calls[i])] = NoSha

FuseFailed == Failed("repo.merge") \/ Failed("repo.rebase")

TargetShaFailed ==
    \E i \in DOMAIN calls :
        calls[i] = <<"repo.get_commit_hash", "origin/target", NoSha>>

HeadFailed ==
    \E i \in DOMAIN calls : calls[i] = <<"repo.get_commit_hash", "HEAD", NoSha>>

PushFailed == \E i \in DOMAIN calls : calls[i] = <<"repo.push", "GitError">>

CleanupCalls == {"repo.checkout_branch", "repo.remove_branch"}

NoCleanup == \A i \in DOMAIN calls : calls[i][1] \notin CleanupCalls

\* The default branch is checked out and, unless that raised, the source
\* branch removed, as the last calls of the operation.
CleanedUp ==
    /\ Count(calls, "repo.checkout_branch") = 1
    /\ IF outcome = GitError("repo.checkout_branch")
       THEN Count(calls, "repo.remove_branch") = 0
               /\ Last(calls)[1] = "repo.checkout_branch"
       ELSE Count(calls, "repo.remove_branch") = 1
               /\ Last(calls)[1] = "repo.remove_branch"
               /\ calls[Len(calls) - 1] = <<"repo.checkout_branch">>

\* C17 as claimed: on any git failure inside
\* update_from_target_branch_and_push (fuse, target sha, trailer rewrite or
\* forced push) the cleanup is made when the source branch is not the
\* default branch, and not made when it is.
C17_CleanupOnAnyGitFailure ==
    (/\ Done("update_from_target_branch_and_push")
     /\ FuseFailed \/ TargetShaFailed \/ Failed("repo.tag_with_trailer") \/ PushFailed) =>
        IF mr.source_branch # project.default_branch THEN CleanedUp ELSE NoCleanup

\* C17, amended: the cleanup is made on a git failure of the fuse, of
\* reading the target sha, of a trailer rewrite or of reading the local HEAD
\* for the forge rebase, when the source branch is not the default branch
\* (the default branch is checked out and, unless that raises, the source
\* branch removed, as the last calls made); it is not made when the source
\* branch is the default branch, nor when the forced push fails: that
\* failure leaves push_force_to_mr as CannotMerge (or as the API error of
\* its branch lookup) and never reaches the handler.
C17_CleanupOnHandledGitFailure ==
    Done("update_from_target_branch_and_push") =>
        /\ Handled <=> (FuseFailed \/ TargetShaFailed
                            \/ Failed("repo.tag_with_trailer") \/ HeadFailed)
        /\ PushFailed => ~Handled /\ outcome.kind \in {"CannotMerge", "ApiError"}
        /\ IF Handled /\ mr.source_branch # project.default_branch
           THEN CleanedUp
           ELSE NoCleanup

C17_Witness ==
    /\ Done("update_from_target_branch_and_push")
    /\ PushFailed
    /\ mr.source_branch # project.default_branch
    /\ NoCleanup
    /\ outcome.kind = "CannotMerge"

C17_WitnessCleanedUp ==
    /\ Done("update_from_target_branch_and_push")
    /\ TargetShaFailed
    /\ mr.source_branch # project.default_branch
    /\ CleanedUp
    /\ Count(calls, "repo.remove_branch") = 1

BranchLookedUp == \E i \in DOMAIN calls : calls[i][1] = "Branch.fetch_by_name"

\* What Branch.fetch_by_name gave.
BranchLookup ==
    LET i == CHOOSE j \in DOMAIN calls : calls[j][1] = "Branch.fetch_by_name"
    IN  calls[i][2]

\* C18: when the forced push of push_force_to_mr fails with a git error the
\* operation ends in CannotMerge, the branch lookup succeeding: with the
\* protected-branch reason exactly when branch_was_modified and the remote
\* source branch is protected, otherwise with the push-failure reason naming
\* "merged" under fusion merge and "rebased" otherwise; the branch is looked
\* up only when branch_was_modified.
C18_PushFailureIsCannotMerge ==
    (PushFailed /\ pc = "done") =>
        /\ op \in {"push_force_to_mr", "update_from_target_branch_and_push"}
        /\ BranchLookedUp <=> upd.branch_was_modified
        /\ Last(calls)[1] = IF upd.branch_was_modified
                            THEN "Branch.fetch_by_name" ELSE "repo.push"
        /\ IF BranchLookedUp /\ BranchLookup = "ApiError"
           THEN outcome = ApiError("Branch.fetch_by_name")
           ELSE IF BranchLookedUp /\ BranchLookup = "protected"
           THEN outcome = CannotMerge("Sorry, I can't modify protected branches!", <<>>)
           ELSE outcome = CannotMerge("Failed to push changes, check my logs!",
                                      <<IF opts.fusion = "merge"
                                        THEN "merged" ELSE "rebased">>)

C18_Witness ==
    /\ Done("push_force_to_mr")
    /\ PushFailed
    /\ ~upd.branch_was_modified
    /\ opts.fusion = "merge"
    /\ outcome = CannotMerge("Failed to push changes, check my logs!", <<"merged">>)

C18_WitnessProtected ==
    /\ Done("update_from_target_branch_and_push")
    /\ PushFailed
    /\ upd.branch_was_modified
    /\ BranchLookup = "protected"
    /\ outcome.reason = "Sorry, I can't modify protected branches!"

\* The allowed approvers recorded, counted as the list has them.
AllowedRecorded ==
    Cardinality({i \in DOMAIN approvals.approver_usernames :
                    approvals.approver_usernames[i] \in approvals.allowed_approvers})

\* C19: for an approvals object of either class sufficient holds exactly
\* when approvals_left is 0; for CustomApprovals approvals_left is
\* max(0, required - the recorded approvers on the allow-list), whatever the
\* forge's own approvals_left; for Approvals it is the forge's.
C19_SufficientIffNoneLeft ==
    Done("sufficient") =>
        LET left == outcome.detail[1]
            is_sufficient == outcome.detail[2]
        IN  /\ is_sufficient <=> left = 0
            /\ approvals.class = "Approvals" => left = approvals.approvals_left
            /\ approvals.class = "CustomApprovals" =>
                   left = IF approvals.required > AllowedRecorded
                          THEN approvals.required - AllowedRecorded
                          ELSE 0

C19_Witness ==
    /\ Done("sufficient")
    /\ approvals.class = "CustomApprovals"
    /\ approvals.required = 2
    /\ approvals.allowed_approvers = {"a", "b"}
    /\ approvals.approver_usernames = <<"a", "c">>
    /\ approvals.approvals_left = 0
    /\ outcome.detail = <<1, FALSE>>

\* C20 as claimed: refetch_info on a forge that is no enterprise edition and
\* whose release is below 13.2.0, those below 9.2.2 included, makes no GET
\* and leaves approvals_left = 0 and no approvers; on an enterprise edition
\* or from 13.2.0 on it makes exactly one GET of the approvals endpoint,
\* keyed by the iid from 9.2.2 on and by the id before.
C20_RefetchByEditionAndRelease ==
    Done("refetch_info") =>
        LET release == approvals.version.release
        IN  IF ~approvals.version.is_ee /\ ~ReleaseGE(release, <<13, 2, 0>>)
            THEN /\ outcome = Return
                 /\ Count(calls, "GET approvals") = 0
                 /\ approvals.approvals_left = 0
                 /\ approvals.approver_ids = <<>>
            ELSE /\ outcome = Return
                 /\ Count(calls, "GET approvals") = 1
                 /\ \E i \in DOMAIN calls :
                        calls[i] = <<"GET approvals",
                                     IF ReleaseGE(release, <<9, 2, 2>>)
                                     THEN "iid" ELSE "id">>

AssignmentCalls == {i \in DOMAIN calls : calls[i][1] \in {"assign_to", "unassign"}}

\* C21: unassign_from_mr makes exactly one assignment call on the merge
\* request: assign_to(author) when the merge request has an author id other
\* than the bot's, unassign otherwise; it never assigns the merge request to
\* the bot, and when the call is accepted the bot is not among the assignees.
C21_OneAssignmentNeverToBot ==
    Done("unassign_from_mr") =>
        /\ Cardinality(AssignmentCalls) = 1
        /\ calls = <<IF mr.author_id # NoUser /\ mr.author_id # BotUserId
                     THEN <<"assign_to", mr.author_id>>
                     ELSE <<"unassign">>>>
        /\ <<"assign_to", BotUserId>> \notin Range(calls)
        /\ outcome = Return => BotUserId \notin forge.assignee_ids

C21_Witness ==
    /\ Done("unassign_from_mr")
    /\ mr.author_id = BotUserId
    /\ BotUserId \in mr.assignee_ids
    /\ calls = <<<<"unassign">>>>
    /\ outcome = Return

C21_WitnessAuthor ==
    /\ Done("unassign_from_mr")
    /\ mr.author_id \notin {NoUser, BotUserId}
    /\ calls = <<<<"assign_to", mr.author_id>>>>
    /\ forge.assignee_ids = {mr.author_id}

\* The approver ids of the impersonated approve calls made, in order.
Replayed ==
    LET posts == SelectSeq(calls, LAMBDA c : c[1] = "POST approve")
    IN  [i \in DOMAIN posts |-> posts[i][2]]

\* The number of approvals fetches among the first i calls.
FetchesUpTo(i) == Cardinality({j \in 1..i : calls[j][1] = "fetch_approvals"})

\* Re-approval disabled: no fetch, no sleep, no approve call.
ReapproveDisabledDoesNothing ==
    op = "maybe_reapprove" /\ ~opts.reapprove => calls = <<>>

\* At most round(approval_timeout / 5 s) sleeps, each one right after a fetch
\* that reported sufficient approvals.
SleepsOnlyWhileSufficient ==
    op = "maybe_reapprove" =>
        /\ 2 * ReapproveWaitingTimeInSecs * Count(calls, "sleep")
               <= 2 * opts.approval_timeout + ReapproveWaitingTimeInSecs
        /\ \A i \in DOMAIN calls :
               calls[i][1] = "sleep" =>
                   /\ i > 1
                   /\ calls[i - 1][1] = "fetch_approvals"
                   /\ lookups[FetchesUpTo(i)] = "sufficient"

\* reapprove is invoked at most once, exactly when the last fetch, the one
\* made after the waiting loop, reported insufficient approvals.
ReapproveIffLastFetchInsufficient ==
    /\ op = "maybe_reapprove" => Count(calls, "reapprove") <= 1
    /\ Done("maybe_reapprove") /\ opts.reapprove =>
           /\ lookups # <<>>
           /\ Count(calls, "reapprove") = 1 <=> Last(lookups) = "insufficient"
           /\ \A i \in DOMAIN calls :
                  calls[i][1] = "reapprove" =>
                      /\ calls[i - 1][1] = "fetch_approvals"
                      /\ FetchesUpTo(i) = Len(lookups)

\* reapprove replays one impersonated approve call per recorded approver.
OneApprovePerRecordedApprover ==
    Done("maybe_reapprove") =>
        Replayed = IF Count(calls, "reapprove") = 1
                   THEN approvals.approver_ids ELSE <<>>

\* C22 as claimed: maybe_reapprove with re-approval disabled makes no fetch,
\* no sleep and no approve call; enabled, it sleeps at most
\* round(approval_timeout / 5 s) times and only after a fetch that reported
\* sufficient approvals, invokes reapprove at most once and exactly when the
\* last fetch reported insufficient approvals, and then replays one
\* impersonated approve call per approver recorded in the object passed in.
C22_CheckBeforeReplay ==
    /\ ReapproveDisabledDoesNothing
    /\ SleepsOnlyWhileSufficient
    /\ ReapproveIffLastFetchInsufficient
    /\ OneApprovePerRecordedApprover

CheckoutRaised ==
    \E i \in DOMAIN calls : calls[i] = <<"repo.checkout_branch", "GitError">>

RemoveBranchRaised ==
    \E i \in DOMAIN calls : calls[i] = <<"repo.remove_branch", "GitError">>

\* C23: when the cleanup of the git-error handler of
\* update_from_target_branch_and_push itself fails, the cleanup's exception
\* is what leaves the operation: no CannotMerge is raised in its place, and
\* after a failed checkout the branch removal is not attempted.
C23_CleanupFailurePropagates ==
    Done("update_from_target_branch_and_push") =>
        /\ CheckoutRaised =>
               /\ outcome = GitError("repo.checkout_branch")
               /\ Count(calls, "repo.remove_branch") = 0
               /\ Last(calls) = <<"repo.checkout_branch", "GitError">>
        /\ RemoveBranchRaised =>
               /\ outcome = GitError("repo.remove_branch")
               /\ Last(calls) = <<"repo.remove_branch", "GitError">>
        /\ (CheckoutRaised \/ RemoveBranchRaised) =>
               Handled /\ outcome.kind \notin CannotMergeKinds

C23_Witness ==
    /\ Done("update_from_target_branch_and_push")
    /\ FuseFailed
    /\ CheckoutRaised
    /\ outcome = GitError("repo.checkout_branch")

C23_WitnessRemoveBranch ==
    /\ Done("update_from_target_branch_and_push")
    /\ Failed("repo.tag_with_trailer")
    /\ RemoveBranchRaised
    /\ outcome = GitError("repo.remove_branch")

\* How merge_request.rebase() ended.
RebaseResult ==
    LET i == CHOOSE j \in DOMAIN calls : calls[j][1] = "merge_request.rebase"
    IN  calls[i][2]

RebaseFailed ==
    /\ pc = "done"
    /\ \E i \in DOMAIN calls : calls[i][1] = "merge_request.rebase" /\ calls[i][2] # "ok"

\* C24: synchronize_using_gitlab_rebase translates a failure of the forge
\* rebase call: a rebase failure reported by the forge and a timeout become
\* CannotMerge; an API error becomes, the branch lookup succeeding,
\* CannotMerge with the protected-branch reason when the remote source
\* branch is protected and is re-raised as it is otherwise; in none of these
\* cases is GitLabRebaseResultMismatch raised or anything called afterwards.
C24_RebaseFailureTranslated ==
    RebaseFailed =>
        /\ RebaseResult = "MergeRequestRebaseFailed" =>
               /\ outcome = CannotMerge("GitLab failed to rebase the branch saying", <<>>)
               /\ Last(calls)[1] = "merge_request.rebase"
        /\ RebaseResult = "TimeoutError" =>
               /\ outcome = CannotMerge("GitLab was taking too long to rebase the branch...",
                                        <<>>)
               /\ Last(calls)[1] = "merge_request.rebase"
        /\ RebaseResult = "ApiError" =>
               /\ Last(calls)[1] = "Branch.fetch_by_name"
               /\ BranchLookup = "protected" =>
                      outcome = CannotMerge("Sorry, I can't modify protected branches!", <<>>)
               /\ BranchLookup = "unprotected" => outcome = ApiError("merge_request.rebase")
               /\ BranchLookup = "ApiError" => outcome = ApiError("Branch.fetch_by_name")
        /\ outcome.kind \notin {"GitLabRebaseResultMismatch", "return"}

C24_Witness ==
    /\ Done("synchronize_using_gitlab_rebase")
    /\ RebaseFailed
    /\ RebaseResult = "ApiError"
    /\ BranchLookup = "protected"
    /\ outcome.kind = "CannotMerge"

C24_WitnessReraised ==
    /\ Done("update_from_target_branch_and_push")
    /\ RebaseFailed
    /\ RebaseResult = "ApiError"
    /\ BranchLookup = "unprotected"
    /\ outcome = ApiError("merge_request.rebase")

SyncCalls == {"merge_request.rebase", "repo.push"}

BeforeSyncCalls == {"repo.merge", "repo.rebase", "fetch_commits",
                    "fetch_approvals", "repo.tag_with_trailer"}

\* C25: in update_from_target_branch_and_push at most one synchronization
\* is made and the fusion mode alone selects it: the forge rebase under
\* gitlab_rebase and never a push, the forced push otherwise and never a
\* forge rebase; it is made only after the fuse gave a sha other than the
\* target's tip and after the trailers are rewritten, and a normal return
\* means it was made exactly once, the fused sha returned differing from
\* the target sha returned.
C25_OneSynchronizationByFusion ==
    op = "update_from_target_branch_and_push" =>
        /\ Count(calls, "merge_request.rebase") + Count(calls, "repo.push") <= 1
        /\ IF opts.fusion = "gitlab_rebase"
           THEN Count(calls, "repo.push") = 0
           ELSE Count(calls, "merge_request.rebase") = 0
        /\ \A i \in DOMAIN calls :
               calls[i][1] \in SyncCalls =>
                   /\ upd.branch_update_done /\ upd.commits_rewrite_done
                   /\ upd.updated_sha # NoSha /\ upd.target_sha # NoSha
                   /\ upd.updated_sha # upd.target_sha
                   /\ calls[1] = <<strategy(opts.fusion), upd.updated_sha>>
                   /\ calls[2] = <<"repo.get_commit_hash", "origin/target", upd.target_sha>>
                   /\ \A j \in DOMAIN calls :
                          calls[j][1] \in BeforeSyncCalls => j < i
        /\ (pc = "done" /\ outcome = Return) =>
               /\ Count(calls, "merge_request.rebase") + Count(calls, "repo.push") = 1
               /\ upd.updated_sha # upd.target_sha
               /\ upd.final_sha # NoSha

C25_Witness ==
    /\ Done("update_from_target_branch_and_push")
    /\ outcome = Return
    /\ opts.fusion = "gitlab_rebase"
    /\ Count(calls, "merge_request.rebase") = 1
    /\ Count(calls, "repo.push") = 0

C25_WitnessPush ==
    /\ Done("update_from_target_branch_and_push")
    /\ outcome = Return
    /\ opts.fusion = "merge"
    /\ Count(calls, "repo.tag_with_trailer") > 0
    /\ Last(calls) = <<"repo.push", "ok">>

\* The repo.tag_with_trailer calls made, in order.
Tags == SelectSeq(calls, LAMBDA c : c[1] = "repo.tag_with_trailer")

TrailerRank(name) ==
    CASE name = "Reviewed-by" -> 1
      [] name = "Tested-by" -> 2
      [] name = "Part-of" -> 3

\* add_trailers has returned normally.
TrailersReturned ==
    \/ Done("add_trailers") /\ outcome = Return
    \/ op = "update_from_target_branch_and_push" /\ upd.commits_rewrite_done

\* C26: add_trailers applies trailers only in the order Reviewed-by,
\* Tested-by, Part-of and returns the sha of the last one applied, none if
\* none was applied; Reviewed-by only when add_reviewers is set and the
\* fusion is not gitlab_rebase, Tested-by only when add_tested is set, the
\* project requires pipelines to succeed and the fusion is rebase, Part-of
\* only when add_part_of is set and the fusion is not gitlab_rebase; so
\* under gitlab_rebase no trailer is written, add_trailers returns none and
\* the final sha of update_from_target_branch_and_push is the fused sha.
C26_TrailersInOrderAndGated ==
    op \in {"add_trailers", "update_from_target_branch_and_push"} =>
        /\ \A i, j \in DOMAIN Tags :
               i < j => TrailerRank(Tags[i][2]) < TrailerRank(Tags[j][2])
        /\ \A i \in DOMAIN Tags :
               /\ Tags[i][2] = "Reviewed-by" =>
                      opts.add_reviewers /\ opts.fusion # "gitlab_rebase"
               /\ Tags[i][2] = "Tested-by" =>
                      /\ opts.add_tested
                      /\ project.only_allow_merge_if_pipeline_succeeds
                      /\ opts.fusion = "rebase"
               /\ Tags[i][2] = "Part-of" =>
                      opts.add_part_of /\ opts.fusion # "gitlab_rebase"
        /\ TrailersReturned =>
               upd.trailers_sha = IF Tags = <<>> THEN NoSha ELSE Last(Tags)[3]
        /\ opts.fusion = "gitlab_rebase" =>
               /\ Tags = <<>>
               /\ upd.trailers_sha = NoSha
               /\ (op = "update_from_target_branch_and_push"
                      /\ upd.commits_rewrite_done) =>
                      upd.final_sha = upd.updated_sha

C26_Witness ==
    /\ Done("add_trailers")
    /\ outcome = Return
    /\ Len(Tags) = 3
    /\ Tags[1][2] = "Reviewed-by" /\ Tags[2][2] = "Tested-by" /\ Tags[3][2] = "Part-of"
    /\ upd.trailers_sha = Tags[3][3]
    /\ Tags[3][3] # Tags[1][3]

C26_WitnessGitlabRebase ==
    /\ Done("update_from_target_branch_and_push")
    /\ outcome = Return
    /\ opts.fusion = "gitlab_rebase"
    /\ opts.add_reviewers /\ opts.add_tested /\ opts.add_part_of
    /\ project.only_allow_merge_if_pipeline_succeeds
    /\ upd.add_trailers
    /\ Tags = <<>>
    /\ upd.final_sha = upd.updated_sha

\* add_trailers has fetched the commits and the approvals.
ReviewersFetched == Done("add_trailers") /\ Count(calls, "fetch_commits") = 1

\* The author emails of the commits fetched.
AuthorEmails ==
    LET i == CHOOSE j \in DOMAIN calls : calls[j][1] = "fetch_commits"
    IN  calls[i][2]

\* The approvers fetched (a user is identified with their email).
FetchedApprovers ==
    LET i == CHOOSE j \in DOMAIN calls : calls[j][1] = "fetch_approvals"
    IN  calls[i][2]

\* Approvers who authored no commit of the merge request.
IndependentReviewers == FetchedApprovers \ AuthorEmails

ReviewedByWritten == \E i \in DOMAIN Tags : Tags[i][2] = "Reviewed-by"

IndependentReviewerRequired ==
    outcome = CannotMerge("Commits require at least one independent reviewer.", <<>>)

\* C27 as claimed: whenever add_trailers writes a Reviewed-by trailer the
\* approvers it records include an independent reviewer, an approver who is
\* the author of no commit of the merge request; when no approver is
\* independent it raises CannotMerge ("independent reviewer") and writes no
\* trailer.
C27_ReviewedByHasIndependentReviewer ==
    ReviewersFetched =>
        /\ ReviewedByWritten => IndependentReviewers # {}
        /\ IndependentReviewers = {} => IndependentReviewerRequired /\ Tags = <<>>

\* C27, amended: add_trailers raises CannotMerge ("independent reviewer"),
\* writing no trailer, exactly when there is at most one approver and that
\* approver authored a commit of the merge request; so whenever it writes a
\* Reviewed-by trailer for a non-empty list of approvers, every commit has an
\* approver who is not its author.  With two or more approvers who all
\* authored commits, and with no approver at all, it does not raise and
\* makes the Reviewed-by rewrite though no approver is independent.
C27_SoleApproverMustNotBeAuthor ==
    ReviewersFetched =>
        /\ IndependentReviewerRequired <=>
               /\ Cardinality(FetchedApprovers) <= 1
               /\ FetchedApprovers \cap AuthorEmails # {}
        /\ IndependentReviewerRequired =>
               Tags = <<>> /\ Last(calls)[1] = "fetch_approvals"
        /\ ~IndependentReviewerRequired => ReviewedByWritten
        /\ (ReviewedByWritten /\ FetchedApprovers # {}) =>
               \A author \in AuthorEmails :
                   \E approver \in FetchedApprovers : approver # author

C27_Witness ==
    /\ ReviewersFetched
    /\ Cardinality(FetchedApprovers) = 1
    /\ FetchedApprovers = AuthorEmails
    /\ IndependentReviewerRequired
    /\ Tags = <<>>

C27_WitnessAllApproversAuthors ==
    /\ ReviewersFetched
    /\ Cardinality(FetchedApprovers) = 2
    /\ FetchedApprovers = AuthorEmails
    /\ ReviewedByWritten
    /\ outcome = Return

=============================================================================
